---- MODULE Spec2Model ----
(***************************************************************************)
(* Model of the reference-count engine and the cycle collector of          *)
(* src/vm/gc.c (QuickJS derived).  A runtime holds three intrusive lists   *)
(* of GC headers (gc_obj_list, tmp_obj_list, gc_zero_ref_count_list) and a *)
(* phase.  The mutator allocates cells, retains and releases them and      *)
(* stores references between them; JS_RunGC runs trial deletion.           *)
(*                                                                         *)
(* The C call stack is explicit (variable stack): every frame is one       *)
(* activation of a function of gc.c, and each action is one step of the    *)
(* activation on top.  Mutator operations start from the empty stack.      *)
(***************************************************************************)
EXTENDS Integers, Sequences, FiniteSets, TLC

\* ---- bounds of the model ------------------------------------------------
MaxCells == 2   \* cells allocated over a behaviour (identities 1..MaxCells)
MaxEdges == 2   \* references stored between cells at any one time

\* the heaps of the drain scenario (SpecDrain), of the cycle scenario
\* (SpecCycle) and of the leaf scenario (SpecLeaf)
MaxDrainCells == 4
MaxDrainEdges == 3
MaxCycleCells == 3
MaxCycleEdges == 4
MaxLeafCells == 4
MaxStrings == 1
MaxLeafEdges == 5

\* width of size_t in the trigger scenario (SpecTrigger)
SizeBits == 3

\* the array scenario (SpecArray): the width of int, the largest element
\* size and the largest slack the allocator reports
ArrayIntBits == 5
MaxElemSize == 2
MaxSlack == 2

\* bounds of the teardown scenario (SpecWeak): cells, references, weak maps
\* and weak-map records
MaxWeakCells == 3
MaxWeakEdges == 2
MaxWeakMaps == 2
MaxWeakRecords == 2

\* ---- JSGCObjectTypeEnum and JSGCPhaseEnum ---------------------------------
JS_GC_OBJ_TYPE_JS_OBJECT == "JS_OBJECT"
JS_GC_OBJ_TYPE_FUNCTION_BYTECODE == "FUNCTION_BYTECODE"
JS_GC_OBJ_TYPE_VAR_REF == "VAR_REF"
JS_GC_OBJ_TYPE_SHAPE == "SHAPE"
JS_GC_OBJ_TYPE_JS_CONTEXT == "JS_CONTEXT"
NoType == "unallocated"

\* a JSString that is not an atom: reference counted, not a GC object
JS_TAG_STRING == "STRING"

GCObjTypes == {JS_GC_OBJ_TYPE_JS_OBJECT, JS_GC_OBJ_TYPE_FUNCTION_BYTECODE,
               JS_GC_OBJ_TYPE_VAR_REF, JS_GC_OBJ_TYPE_SHAPE}

\* the two kinds that are JS values (JS_TAG_OBJECT, JS_TAG_FUNCTION_BYTECODE)
ValueTypes == {JS_GC_OBJ_TYPE_JS_OBJECT, JS_GC_OBJ_TYPE_FUNCTION_BYTECODE}

JS_GC_PHASE_NONE == "NONE"
JS_GC_PHASE_DECREF == "DECREF"
JS_GC_PHASE_REMOVE_CYCLES == "REMOVE_CYCLES"

VARIABLES
  nalloc,                  \* number of cells allocated so far
  gc_obj_type,             \* header.gc_obj_type of each cell
  ref_count,               \* header.ref_count
  mark,                    \* header.mark
  free_mark,               \* JSObject.free_mark
  children,                \* the references mark_children enumerates, in order
  gc_obj_list,             \* rt->gc_obj_list
  tmp_obj_list,            \* rt->tmp_obj_list
  gc_zero_ref_count_list,  \* rt->gc_zero_ref_count_list
  gc_phase,                \* rt->gc_phase
  held,                    \* 1 while the mutator holds its reference to the cell
  stack,                   \* the C call stack, innermost activation last
  finalized,               \* times the teardown of its kind began on each cell
  freed,                   \* times js_free_rt was given each cell
  snap,                    \* the heap at entry to the running JS_RunGC
  last_gc,                 \* the last operation that returned was JS_RunGC
  hist,                    \* what the running operation has done so far
  malloc_gc_threshold,     \* rt->malloc_gc_threshold
  trig,                    \* the last call of js_trigger_gc, until the next operation
  call,                    \* the last call of an allocator wrapper of a context
  dump,                    \* the running or last call of the snapshot dumper
  weak,                    \* the weak-map records and the log of the teardowns
  tick,                    \* flipped by every step of an activation
  err                      \* failed assertions, aborts and memory faults

\* the cell identities of the heap at hand: those the initial state provides
Cells == DOMAIN gc_obj_type

vars == <<nalloc, gc_obj_type, ref_count, mark, free_mark, children,
          gc_obj_list, tmp_obj_list, gc_zero_ref_count_list, gc_phase,
          held, stack, finalized, freed, snap, last_gc, hist,
          malloc_gc_threshold, trig, call, dump, weak, tick, err>>

\* ---- intrusive lists (libs/list.h) as sequences -----------------------------
InList(l, p) == \E i \in 1..Len(l) : l[i] = p

ListRemove(l, p) == SelectSeq(l, LAMBDA x : x # p)

ListIndex(l, p) == CHOOSE i \in 1..Len(l) : l[i] = p

\* el->next; 0 stands for the list head (end of the iteration)
ListNext(l, p) ==
  IF InList(l, p) /\ ListIndex(l, p) < Len(l) THEN l[ListIndex(l, p) + 1] ELSE 0

ListFirst(l) == IF Len(l) = 0 THEN 0 ELSE l[1]

SeqSet(l) == {l[i] : i \in 1..Len(l)}

\* number of occurrences of c in the sequence l
Count(l, c) == Cardinality({i \in 1..Len(l) : l[i] = c})

\* ---- the machine state as one record -----------------------------------------
\* the record of the running operation: fin, the value cells in the order their
\* teardown began; rel, the cells in the order js_free_rt was given them; tmp0,
\* tmp_obj_list when the free pass began; seen, what the finalizer of each
\* object got from JS_IsLiveObject on the objects it references; pending, the
\* rest of gc_zero_ref_count_list when the drain loop popped each cell;
\* zeroed_by, the cell whose teardown brought each cell to a zero count
NoHist ==
  [fin |-> << >>, rel |-> << >>, tmp0 |-> << >>,
   seen |-> [c \in Cells |-> {}], pending |-> [c \in Cells |-> {}],
   zeroed_by |-> [c \in Cells |-> 0]]

Cur ==
  [hist |-> hist, ref_count |-> ref_count, mark |-> mark, free_mark |-> free_mark,
   children |-> children, gc_obj_list |-> gc_obj_list,
   tmp_obj_list |-> tmp_obj_list,
   gc_zero_ref_count_list |-> gc_zero_ref_count_list,
   gc_phase |-> gc_phase, stack |-> stack, finalized |-> finalized,
   freed |-> freed, err |-> err]

Commit(m) ==
  /\ ref_count' = m.ref_count
  /\ mark' = m.mark
  /\ free_mark' = m.free_mark
  /\ children' = m.children
  /\ gc_obj_list' = m.gc_obj_list
  /\ tmp_obj_list' = m.tmp_obj_list
  /\ gc_zero_ref_count_list' = m.gc_zero_ref_count_list
  /\ gc_phase' = m.gc_phase
  /\ stack' = m.stack
  /\ finalized' = m.finalized
  /\ freed' = m.freed
  /\ hist' = IF m.stack = << >> THEN NoHist ELSE m.hist
  /\ err' = m.err

Frame(fn, p, i) == [fn |-> fn, p |-> p, i |-> i]

Push(m, f) == [m EXCEPT !.stack = Append(@, f)]

Pop(m) == [m EXCEPT !.stack = SubSeq(@, 1, Len(@) - 1)]

Top == stack[Len(stack)]

\* replace the innermost frame
SetTop(m, f) == [m EXCEPT !.stack[Len(m.stack)] = f]

\* a failed assert(), an abort() or a memory fault: the process stops
Fault(m, what) == [m EXCEPT !.err = @ \cup {what}]

Min2(a, b) == IF a < b THEN a ELSE b

\* ---- libs/list.h on the three runtime lists ------------------------------------
Linked(m, p) ==
  \/ InList(m.gc_obj_list, p)
  \/ InList(m.tmp_obj_list, p)
  \/ InList(m.gc_zero_ref_count_list, p)

\* list_del(&p->link): unlinks p from the list it is on
list_del(m, p) ==
  IF ~Linked(m, p) THEN Fault(m, "list_del of an unlinked header")
  ELSE [m EXCEPT !.gc_obj_list = ListRemove(@, p),
                 !.tmp_obj_list = ListRemove(@, p),
                 !.gc_zero_ref_count_list = ListRemove(@, p)]

remove_gc_object(m, p) == list_del(m, p)

\* js_free_rt on the memory of cell p; what the freed header holds is not
\* defined, and is kept as zeroes
js_free_rt(m, p) ==
  IF m.freed[p] > 0 THEN Fault(m, "double free")
  ELSE [m EXCEPT !.freed[p] = 1, !.children[p] = << >>, !.ref_count[p] = 0,
                 !.mark[p] = 0, !.free_mark[p] = 0,
                 !.hist.rel = Append(@, p)]

list_add_tail_gc_obj_list(m, p) ==
  [m EXCEPT !.gc_obj_list = Append(@, p)]

list_add_tail_tmp_obj_list(m, p) ==
  [m EXCEPT !.tmp_obj_list = Append(@, p)]

list_add_tail_gc_zero_ref_count_list(m, p) ==
  [m EXCEPT !.gc_zero_ref_count_list = Append(@, p)]

\* list_add_gc_zero_ref_count_list as a list_add_tail
list_add_gc_zero_ref_count_list_at_tail(m, p) ==
  [m EXCEPT !.gc_zero_ref_count_list = Append(@, p)]

\* list_add(&p->link, &rt->gc_zero_ref_count_list): links p at the head
list_add_gc_zero_ref_count_list(m, p) ==
  [m EXCEPT !.gc_zero_ref_count_list = <<p>> \o @]

\* ---- the free path ---------------------------------------------------------------
ValueFreeFns == {"free_object", "free_function_bytecode"}
InlineFreeFns == {"free_var_ref", "js_free_shape"}
FreeFns == ValueFreeFns \cup InlineFreeFns

\* the cell whose teardown is the innermost activation, 0 when there is none
TearingDown(m) ==
  IF m.stack # << >> /\ m.stack[Len(m.stack)].fn \in FreeFns
  THEN m.stack[Len(m.stack)].p ELSE 0

\* free_zero_refcount: entry; the loop itself is the action FreeZeroRefcountLoop
free_zero_refcount(m) ==
  Push([m EXCEPT !.gc_phase = JS_GC_PHASE_DECREF],
       Frame("free_zero_refcount", 0, 0))

\* free_zero_refcount_exit without the reset of rt->gc_phase
free_zero_refcount_exit_keeps_phase(m) == Pop(m)

\* free_zero_refcount: the list is empty, the phase is reset, the call returns
free_zero_refcount_exit(m) == Pop([m EXCEPT !.gc_phase = JS_GC_PHASE_NONE])

\* __JS_FreeValueRT without the test of JS_GC_PHASE_REMOVE_CYCLES
JS_FreeValueRT_zero_any_phase(m, p) ==
  LET m1 == list_add_gc_zero_ref_count_list(list_del(m, p), p)
  IN IF m.gc_phase = JS_GC_PHASE_NONE THEN free_zero_refcount(m1) ELSE m1

\* JS_FreeValueRT_zero that unlinks the cell but links it to
\* gc_zero_ref_count_list only when it starts the drain itself
JS_FreeValueRT_zero_drop_nested(m, p) ==
  IF m.gc_phase = JS_GC_PHASE_NONE
  THEN free_zero_refcount(list_add_gc_zero_ref_count_list(list_del(m, p), p))
  ELSE IF m.gc_phase = JS_GC_PHASE_DECREF THEN list_del(m, p)
  ELSE m

\* JS_FreeValueRT_zero that begins the teardown of the cell at once when the
\* drain loop is already running
JS_FreeValueRT_zero_eager(m, p) ==
  IF m.gc_phase # JS_GC_PHASE_REMOVE_CYCLES
  THEN LET m1 == list_add_gc_zero_ref_count_list(list_del(m, p), p)
       IN IF m.gc_phase = JS_GC_PHASE_NONE THEN free_zero_refcount(m1)
          ELSE [m1 EXCEPT !.finalized[p] = Min2(@ + 1, 2)]
  ELSE m

\* JS_FreeValueRT_zero that calls free_zero_refcount also from inside a drain
JS_FreeValueRT_zero_nested(m, p) ==
  IF m.gc_phase # JS_GC_PHASE_REMOVE_CYCLES
  THEN LET m0 == [m EXCEPT !.hist.zeroed_by[p] = TearingDown(m)]
       IN free_zero_refcount(
            list_add_gc_zero_ref_count_list(list_del(m0, p), p))
  ELSE m

\* __JS_FreeValueRT, cases JS_TAG_OBJECT and JS_TAG_FUNCTION_BYTECODE
JS_FreeValueRT_zero(m, p) ==
  IF m.gc_phase # JS_GC_PHASE_REMOVE_CYCLES
  THEN LET m0 == [m EXCEPT !.hist.zeroed_by[p] = TearingDown(m)]
           m1 == list_add_gc_zero_ref_count_list(list_del(m0, p), p)
       IN IF m.gc_phase = JS_GC_PHASE_NONE THEN free_zero_refcount(m1) ELSE m1
  ELSE m

\* JS_FreeValueRT_string that leaves the string allocated
JS_FreeValueRT_string_leak(m, p) == m

\* __JS_FreeValueRT, case JS_TAG_STRING, of a string that is not an atom
JS_FreeValueRT_string(m, p) == js_free_rt(m, p)

\* JS_FreeValueRT (quickjs.h): if (--p->ref_count <= 0) __JS_FreeValueRT(rt, v)
JS_FreeValueRT(m, p) ==
  IF m.freed[p] > 0 THEN Fault(m, "release of freed memory")
  ELSE LET m1 == [m EXCEPT !.ref_count[p] = @ - 1]
       IN IF m1.ref_count[p] > 0 THEN m1
          ELSE IF gc_obj_type[p] = JS_TAG_STRING
          THEN JS_FreeValueRT_string(m1, p)
          ELSE JS_FreeValueRT_zero(m1, p)

\* free_var_ref: the count is decremented here; at zero the activation that
\* releases the value, unlinks and frees the cell is pushed
free_var_ref(m, p) ==
  IF m.freed[p] > 0 THEN Fault(m, "release of freed memory")
  ELSE IF m.ref_count[p] <= 0
  THEN Fault(m, "assert ref_count > 0 in free_var_ref")
  ELSE LET m1 == [m EXCEPT !.ref_count[p] = @ - 1]
       IN IF m1.ref_count[p] = 0
          THEN Push([m1 EXCEPT !.finalized[p] = Min2(@ + 1, 2),
                               !.hist.zeroed_by[p] = TearingDown(m)],
                    Frame("free_var_ref", p, 1))
          ELSE m1

\* js_free_shape: if (--sh->header.ref_count <= 0) js_free_shape0(rt, sh)
js_free_shape(m, p) ==
  IF m.freed[p] > 0 THEN Fault(m, "release of freed memory")
  ELSE LET m1 == [m EXCEPT !.ref_count[p] = @ - 1]
       IN IF m1.ref_count[p] <= 0
          THEN Push([m1 EXCEPT !.finalized[p] = Min2(@ + 1, 2),
                               !.hist.zeroed_by[p] = TearingDown(m)],
                    Frame("js_free_shape", p, 1))
          ELSE m1

\* the release a holder of a reference to p performs, by the kind of p
ReleaseRef(m, p) ==
  CASE gc_obj_type[p] \in ValueTypes \cup {JS_TAG_STRING} ->
         JS_FreeValueRT(m, p)
    [] gc_obj_type[p] = JS_GC_OBJ_TYPE_VAR_REF -> free_var_ref(m, p)
    [] gc_obj_type[p] = JS_GC_OBJ_TYPE_SHAPE -> js_free_shape(m, p)
    [] OTHER -> Fault(m, "release of an unallocated cell")

\* free_object that does not set free_mark
free_object_no_mark(m, p) ==
  Push([m EXCEPT !.finalized[p] = Min2(@ + 1, 2), !.hist.fin = Append(@, p)],
       Frame("free_object", p, 1))

\* free_object up to its first release: sets free_mark
free_object(m, p) ==
  Push([m EXCEPT !.free_mark[p] = 1, !.finalized[p] = Min2(@ + 1, 2),
                 !.hist.fin = Append(@, p)],
       Frame("free_object", p, 1))

free_function_bytecode(m, p) ==
  Push([m EXCEPT !.finalized[p] = Min2(@ + 1, 2), !.hist.fin = Append(@, p)],
       Frame("free_function_bytecode", p, 1))

free_gc_object(m, p) ==
  CASE gc_obj_type[p] = JS_GC_OBJ_TYPE_JS_OBJECT -> free_object(m, p)
    [] gc_obj_type[p] = JS_GC_OBJ_TYPE_FUNCTION_BYTECODE ->
         free_function_bytecode(m, p)
    [] OTHER -> Fault(m, "abort in free_gc_object")

\* JS_IsLiveObject: FALSE for a value that is not an object and for an object
\* whose free_mark is set
JS_IsLiveObject(m, v) ==
  IF gc_obj_type[v] # JS_GC_OBJ_TYPE_JS_OBJECT THEN FALSE
  ELSE m.free_mark[v] = 0

\* the class finalizer of the object p: it asks JS_IsLiveObject about every
\* object p references and changes nothing; alloc tells whether the memory it
\* read was still allocated
class_finalizer(m, p) ==
  [m EXCEPT !.hist.seen[p] =
     {[cell |-> d, live |-> JS_IsLiveObject(m, d), alloc |-> m.freed[d] = 0] :
        d \in {x \in SeqSet(m.children[p]) :
                 gc_obj_type[x] = JS_GC_OBJ_TYPE_JS_OBJECT}}]

\* free_object_end of a free_object that left shape and prop as they were
free_object_end_keeps_fields(m, p) ==
  LET m1 == remove_gc_object(m, p)
  IN IF m1.gc_phase = JS_GC_PHASE_REMOVE_CYCLES /\ m1.ref_count[p] # 0
     THEN list_add_tail_gc_zero_ref_count_list(m1, p)
     ELSE js_free_rt(m1, p)

\* free_object_end without remove_gc_object on the path that frees
free_object_end_no_unlink(m, p) ==
  LET m1 == [m EXCEPT !.children[p] = << >>]
  IN IF m1.gc_phase = JS_GC_PHASE_REMOVE_CYCLES /\ m1.ref_count[p] # 0
     THEN list_add_tail_gc_zero_ref_count_list(remove_gc_object(m1, p), p)
     ELSE js_free_rt(m1, p)

\* free_object_end that frees the cell whatever its count
free_object_end_frees_at_once(m, p) ==
  js_free_rt(remove_gc_object([m EXCEPT !.children[p] = << >>], p), p)

\* the end of free_object / free_function_bytecode: unlink, then free or defer
free_object_end(m, p) ==
  LET m1 == remove_gc_object([m EXCEPT !.children[p] = << >>], p)
  IN IF m1.gc_phase = JS_GC_PHASE_REMOVE_CYCLES /\ m1.ref_count[p] # 0
     THEN list_add_tail_gc_zero_ref_count_list(m1, p)
     ELSE js_free_rt(m1, p)

\* free_var_ref_end without remove_gc_object
free_var_ref_end_no_unlink(m, p) == js_free_rt(m, p)

\* the end of free_var_ref (and of js_free_shape0): unlink and free
free_var_ref_end(m, p) == js_free_rt(remove_gc_object(m, p), p)

\* ---- the cycle collector ------------------------------------------------------------
\* gc_decref_child that links the cell at the head of tmp_obj_list
gc_decref_child_at_head(m, p) ==
  IF m.ref_count[p] <= 0
  THEN Fault(m, "assert ref_count > 0 in gc_decref_child")
  ELSE LET m1 == [m EXCEPT !.ref_count[p] = @ - 1]
       IN IF m1.ref_count[p] = 0 /\ m1.mark[p] = 1
          THEN [list_del(m1, p) EXCEPT !.tmp_obj_list = <<p>> \o @]
          ELSE m1

\* gc_decref_child that never moves the cell to tmp_obj_list
gc_decref_child_no_move(m, p) ==
  IF m.ref_count[p] <= 0
  THEN Fault(m, "assert ref_count > 0 in gc_decref_child")
  ELSE [m EXCEPT !.ref_count[p] = @ - 1]

\* gc_decref_child that moves a cell at zero whatever its mark
gc_decref_child_moves_unmarked(m, p) ==
  IF m.ref_count[p] <= 0
  THEN Fault(m, "assert ref_count > 0 in gc_decref_child")
  ELSE LET m1 == [m EXCEPT !.ref_count[p] = @ - 1]
       IN IF m1.ref_count[p] = 0
          THEN list_add_tail_tmp_obj_list(list_del(m1, p), p)
          ELSE m1

gc_decref_child(m, p) ==
  IF m.ref_count[p] <= 0
  THEN Fault(m, "assert ref_count > 0 in gc_decref_child")
  ELSE LET m1 == [m EXCEPT !.ref_count[p] = @ - 1]
       IN IF m1.ref_count[p] = 0 /\ m1.mark[p] = 1
          THEN list_add_tail_tmp_obj_list(list_del(m1, p), p)
          ELSE m1

\* gc_scan_incref_child that leaves the cell on tmp_obj_list
gc_scan_incref_child_no_move(m, p) ==
  LET m1 == [m EXCEPT !.ref_count[p] = @ + 1]
  IN IF m1.ref_count[p] = 1 THEN [m1 EXCEPT !.mark[p] = 0] ELSE m1

gc_scan_incref_child(m, p) ==
  LET m1 == [m EXCEPT !.ref_count[p] = @ + 1]
  IN IF m1.ref_count[p] = 1
     THEN [list_add_tail_gc_obj_list(list_del(m1, p), p) EXCEPT !.mark[p] = 0]
     ELSE m1

\* gc_scan_incref_child2 that restores nothing
gc_scan_incref_child2_no_incref(m, p) == m

gc_scan_incref_child2(m, p) == [m EXCEPT !.ref_count[p] = @ + 1]

\* the JS_MarkFunc callbacks, by name; JS_MarkValue calls them on objects and
\* function bytecodes only, mark_children calls them on var-refs and shapes
MarkFunc(func, m, p) ==
  CASE gc_obj_type[p] = JS_TAG_STRING -> m
    [] func = "gc_decref_child" -> gc_decref_child(m, p)
    [] func = "gc_scan_incref_child" -> gc_scan_incref_child(m, p)
    [] func = "gc_scan_incref_child2" -> gc_scan_incref_child2(m, p)

\* mark_children(rt, p, func): func on every reference of p, in order.  The
\* per-kind fields of the switch are the entries of children[p].
RECURSIVE mark_children_from(_, _, _, _)
mark_children_from(m, p, i, func) ==
  IF i > Len(m.children[p]) \/ m.err # {} THEN m
  ELSE mark_children_from(MarkFunc(func, m, m.children[p][i]), p, i + 1, func)

mark_children(m, p, func) == mark_children_from(m, p, 1, func)

\* gc_decref_visit that leaves on gc_obj_list an element whose count is zero
\* after its own visit
gc_decref_visit_keeps_zero(m, el) ==
  LET m0 == IF m.mark[el] # 0 THEN Fault(m, "assert mark == 0 in gc_decref")
            ELSE m
      m1 == mark_children(m0, el, "gc_decref_child")
  IN [m1 EXCEPT !.mark[el] = 1]

\* the body of the loop of gc_decref on the element el
gc_decref_visit(m, el) ==
  LET m0 == IF m.mark[el] # 0 THEN Fault(m, "assert mark == 0 in gc_decref")
            ELSE m
      m1 == mark_children(m0, el, "gc_decref_child")
      m2 == [m1 EXCEPT !.mark[el] = 1]
  IN IF m2.ref_count[el] = 0
     THEN list_add_tail_tmp_obj_list(list_del(m2, el), el)
     ELSE m2

\* list_for_each_safe(el, el1, &rt->gc_obj_list): el1 is read before the body
RECURSIVE gc_decref_loop(_, _)
gc_decref_loop(m, el) ==
  IF el = 0 \/ m.err # {} THEN m
  ELSE LET el1 == ListNext(m.gc_obj_list, el)
           m1 == gc_decref_visit(m, el)
       IN IF el1 # 0 /\ ~InList(m1.gc_obj_list, el1)
          THEN Fault(m1, "gc_decref: the saved next element left gc_obj_list")
          ELSE gc_decref_loop(m1, el1)

gc_decref(m) ==
  gc_decref_loop([m EXCEPT !.tmp_obj_list = << >>], ListFirst(m.gc_obj_list))

\* gc_scan_visit without the reset of the mark
gc_scan_visit_keeps_mark(m, el) ==
  LET m0 == IF m.ref_count[el] <= 0
            THEN Fault(m, "assert ref_count > 0 in gc_scan") ELSE m
  IN mark_children(m0, el, "gc_scan_incref_child")

\* the body of the first loop of gc_scan on the element el
gc_scan_visit(m, el) ==
  LET m0 == IF m.ref_count[el] <= 0
            THEN Fault(m, "assert ref_count > 0 in gc_scan") ELSE m
      m1 == [m0 EXCEPT !.mark[el] = 0]
  IN mark_children(m1, el, "gc_scan_incref_child")

\* the first loop of gc_scan as a list_for_each_safe: the next element is read
\* before the body, so the cells the body of the last element appends are skipped
RECURSIVE gc_scan_loop_safe(_, _)
gc_scan_loop_safe(m, el) ==
  IF el = 0 \/ m.err # {} THEN m
  ELSE LET el1 == ListNext(m.gc_obj_list, el)
       IN gc_scan_loop_safe(gc_scan_visit(m, el), el1)

\* list_for_each(el, &rt->gc_obj_list): el->next is read after the body, so the
\* cells the body appends are visited too
RECURSIVE gc_scan_loop(_, _)
gc_scan_loop(m, el) ==
  IF el = 0 \/ m.err # {} THEN m
  ELSE LET m1 == gc_scan_visit(m, el)
       IN gc_scan_loop(m1, ListNext(m1.gc_obj_list, el))

RECURSIVE gc_scan_tmp_loop(_, _)
gc_scan_tmp_loop(m, el) ==
  IF el = 0 \/ m.err # {} THEN m
  ELSE LET m1 == mark_children(m, el, "gc_scan_incref_child2")
       IN gc_scan_tmp_loop(m1, ListNext(m1.tmp_obj_list, el))

\* gc_scan with its two loops in the other order
gc_scan_restore_first(m) ==
  LET m1 == gc_scan_tmp_loop(m, ListFirst(m.tmp_obj_list))
  IN gc_scan_loop(m1, ListFirst(m1.gc_obj_list))

gc_scan(m) ==
  LET m1 == gc_scan_loop(m, ListFirst(m.gc_obj_list))
  IN gc_scan_tmp_loop(m1, ListFirst(m1.tmp_obj_list))

\* gc_free_cycles_visit whose default case leaves the cell on tmp_obj_list
gc_free_cycles_visit_no_unlink(m, p) ==
  IF gc_obj_type[p] \in ValueTypes THEN free_gc_object(m, p) ELSE m

\* gc_free_cycles_visit that hands every cell to free_gc_object
gc_free_cycles_visit_every_kind(m, p) == free_gc_object(m, p)

\* one iteration of the for (;;) of gc_free_cycles; p is the head of tmp_obj_list
gc_free_cycles_visit(m, p) ==
  IF gc_obj_type[p] \in ValueTypes THEN free_gc_object(m, p)
  ELSE list_add_tail_gc_zero_ref_count_list(list_del(m, p), p)

\* the list_for_each_safe over gc_zero_ref_count_list that ends gc_free_cycles
RECURSIVE gc_free_cycles_sweep_from(_, _)
gc_free_cycles_sweep_from(m, i) ==
  IF i > Len(m.gc_zero_ref_count_list) \/ m.err # {} THEN m
  ELSE LET p == m.gc_zero_ref_count_list[i]
       IN IF gc_obj_type[p] \notin ValueTypes
          THEN Fault(m, "assert gc_obj_type in gc_free_cycles")
          ELSE gc_free_cycles_sweep_from(js_free_rt(m, p), i + 1)

\* gc_free_cycles_sweep without init_list_head
gc_free_cycles_sweep_no_init(m) == gc_free_cycles_sweep_from(m, 1)

\* gc_free_cycles_sweep that forgets the deferred cells without freeing them
gc_free_cycles_sweep_no_free(m) ==
  [m EXCEPT !.gc_zero_ref_count_list = << >>]

gc_free_cycles_sweep(m) ==
  [gc_free_cycles_sweep_from(m, 1) EXCEPT !.gc_zero_ref_count_list = << >>]

\* ---- the heap as the mutator sees it ---------------------------------------------------
Allocated(c) == c <= nalloc /\ freed[c] = 0

\* number of references stored in cells
EdgeCount ==
  LET RECURSIVE Sum(_)
      Sum(c) == IF c = 0 THEN 0 ELSE Len(children[c]) + Sum(c - 1)
  IN Sum(Cardinality(Cells))

\* the kinds of reference mark_children finds in a cell of kind k
ChildTypes(k) ==
  CASE k = JS_GC_OBJ_TYPE_JS_OBJECT -> GCObjTypes \cup {JS_TAG_STRING}
    [] k = JS_GC_OBJ_TYPE_FUNCTION_BYTECODE -> ValueTypes
    [] k = JS_GC_OBJ_TYPE_VAR_REF -> ValueTypes
    [] k = JS_GC_OBJ_TYPE_SHAPE -> {JS_GC_OBJ_TYPE_JS_OBJECT}
    [] k = JS_GC_OBJ_TYPE_JS_CONTEXT -> {JS_GC_OBJ_TYPE_JS_OBJECT}
    [] OTHER -> {}

\* an object has one shape, a var-ref one value, a shape one prototype
MayStore(a, b) ==
  /\ gc_obj_type[b] \in ChildTypes(gc_obj_type[a])
  /\ gc_obj_type[a] \in {JS_GC_OBJ_TYPE_VAR_REF, JS_GC_OBJ_TYPE_SHAPE}
       => children[a] = << >>
  /\ gc_obj_type[b] = JS_GC_OBJ_TYPE_SHAPE
       => \A i \in 1..Len(children[a]) :
            gc_obj_type[children[a][i]] # JS_GC_OBJ_TYPE_SHAPE

\* ---- size_t and the allocator's accounting ---------------------------------------------
SizeMod == 2 ^ SizeBits

\* (size_t)-1, the value that disables the automatic collection
Sentinel == SizeMod - 1

Sizes == 0..Sentinel

\* SizeAdd in unbounded arithmetic
SizeAdd_unbounded(a, b) == a + b

\* a + b in size_t
SizeAdd(a, b) == (a + b) % SizeMod

\* bytes the allocator accounts for one cell
CellSize == 2

\* rt->malloc_state.malloc_size: the bytes of the cells allocated and not freed
malloc_size ==
  (CellSize * Cardinality({c \in Cells : Allocated(c)})) % SizeMod

\* the threshold a new runtime starts with
DefaultThreshold == SizeMod \div 2

\* the heap as js_trigger_gc finds it
Heap == <<ref_count, children, freed, gc_obj_list>>

NoTrig ==
  [state |-> "none", ran |-> FALSE, size |-> 0, used |-> 0, thr |-> 0,
   heap |-> << >>]

\* ---- the allocator wrappers of a context ------------------------------------------------
NoCall ==
  [fn |-> "none", old |-> FALSE, size |-> 0, null |-> FALSE, oom |-> FALSE,
   ret_null |-> FALSE, slack |-> 0]

\* js_malloc, js_mallocz: null tells whether rt->mf.js_malloc returned NULL;
\* JS_ThrowOutOfMemory raises the out-of-memory condition of the context
js_malloc_result(fn, size, null) ==
  IF null
  THEN [fn |-> fn, old |-> FALSE, size |-> size, null |-> null, oom |-> TRUE,
        ret_null |-> TRUE, slack |-> 0]
  ELSE [fn |-> fn, old |-> FALSE, size |-> size, null |-> null, oom |-> FALSE,
        ret_null |-> FALSE, slack |-> 0]

\* js_realloc, js_realloc2: old tells whether ptr is a block (not NULL), null
\* whether rt->mf.js_realloc returned NULL; usable is what
\* js_malloc_usable_size_rt gives for the result, read when pslack is not NULL
js_realloc_result(fn, old, size, null, pslack, usable) ==
  IF null /\ size # 0
  THEN [fn |-> fn, old |-> old, size |-> size, null |-> null, oom |-> TRUE,
        ret_null |-> TRUE, slack |-> 0]
  ELSE [fn |-> fn, old |-> old, size |-> size, null |-> null, oom |-> FALSE,
        ret_null |-> null,
        slack |-> IF pslack /\ usable > size THEN usable - size ELSE 0]

\* ---- the snapshot dumper at rest ---------------------------------------------------------
\* JSGCDumpContext and the file: nodes, strs and edges_len are the fields of
\* the dump context; blocks, what the dumper allocated and has not freed; el,
\* the cursor of the walk of gc_obj_list; entry, the heap when the dumper was
\* called; file, what was written
NoFile ==
  [fp |-> "none", node_count |-> 0, edge_count |-> 0, nodes |-> << >>,
   edges |-> << >>, strings |-> << >>]

NoDump ==
  [state |-> "none", el |-> 0, nodes |-> << >>, strs |-> << >>,
   edges_len |-> 0, blocks |-> {}, entry |-> << >>, file |-> NoFile,
   ret |-> "none"]

\* the weak-map records: rec, the records made so far (key, map, value);
\* chain, the records on p->first_weak_ref of each object; hash and link, the
\* records linked on the hash bucket and on the insertion-order list of each
\* map; released, how often the value of a record was released; freed, how
\* often a record was freed; log, what the teardown of each object did so far
NoWeak ==
  [rec |-> << >>, chain |-> [c \in Cells |-> << >>],
   hash |-> [mp \in 1..MaxWeakMaps |-> << >>],
   link |-> [mp \in 1..MaxWeakMaps |-> << >>],
   released |-> << >>, freed |-> << >>, log |-> [c \in Cells |-> << >>]]

NoSnap ==
  [state |-> "none", again |-> FALSE, nalloc |-> 0,
   ref_count |-> [c \in Cells |-> 0], mark |-> [c \in Cells |-> 0],
   children |-> [c \in Cells |-> << >>], held |-> [c \in Cells |-> 0],
   finalized |-> [c \in Cells |-> 0], freed |-> [c \in Cells |-> 0],
   gc_obj_list |-> << >>, malloc_gc_threshold |-> 0]

Idle == stack = << >> /\ err = {}

Running == stack # << >> /\ err = {}

\* the runtime after construction, with room for n cells
InitHeap(n) ==
  /\ nalloc = 0
  /\ gc_obj_type = [c \in 1..n |-> NoType]
  /\ ref_count = [c \in 1..n |-> 0]
  /\ mark = [c \in 1..n |-> 0]
  /\ free_mark = [c \in 1..n |-> 0]
  /\ children = [c \in 1..n |-> << >>]
  /\ gc_obj_list = << >>
  /\ tmp_obj_list = << >>
  /\ gc_zero_ref_count_list = << >>
  /\ gc_phase = JS_GC_PHASE_NONE
  /\ held = [c \in 1..n |-> 0]
  /\ stack = << >>
  /\ finalized = [c \in 1..n |-> 0]
  /\ freed = [c \in 1..n |-> 0]
  /\ snap = NoSnap
  /\ last_gc = FALSE
  /\ hist = NoHist
  /\ malloc_gc_threshold = DefaultThreshold
  /\ trig = NoTrig
  /\ call = NoCall
  /\ dump = NoDump
  /\ weak = NoWeak
  /\ tick = 0
  /\ err = {}

Init == InitHeap(MaxCells)

InitDrain == InitHeap(MaxDrainCells)

InitCycle == InitHeap(MaxCycleCells)

InitLeaf == InitHeap(MaxLeafCells + MaxStrings)

\* ---- mutator operations ----------------------------------------------------------------
\* a constructor: the new cell has ref_count 1 (the creator's reference) and is
\* registered by add_gc_object
add_gc_object(h, type) ==
  /\ Idle
  /\ h = nalloc + 1
  /\ h \in Cells
  /\ nalloc' = h
  /\ gc_obj_type' = [gc_obj_type EXCEPT ![h] = type]
  /\ ref_count' = [ref_count EXCEPT ![h] = 1]
  /\ mark' = [mark EXCEPT ![h] = 0]
  /\ gc_obj_list' = Append(gc_obj_list, h)
  /\ held' = [held EXCEPT ![h] = 1]
  /\ snap' = NoSnap
  /\ last_gc' = FALSE
  /\ trig' = NoTrig
  /\ UNCHANGED <<free_mark, children, tmp_obj_list, gc_zero_ref_count_list,
                 gc_phase, stack, finalized, freed, hist,
                 malloc_gc_threshold, call, dump, weak, tick, err>>

\* a string is created: reference counted, with the creator's reference, and
\* not registered with the collector
NewString(h) ==
  /\ Idle
  /\ h = nalloc + 1
  /\ h \in Cells
  /\ nalloc' = h
  /\ gc_obj_type' = [gc_obj_type EXCEPT ![h] = JS_TAG_STRING]
  /\ ref_count' = [ref_count EXCEPT ![h] = 1]
  /\ held' = [held EXCEPT ![h] = 1]
  /\ snap' = NoSnap
  /\ last_gc' = FALSE
  /\ trig' = NoTrig
  /\ UNCHANGED <<mark, free_mark, children, gc_obj_list, tmp_obj_list,
                 gc_zero_ref_count_list, gc_phase, stack, finalized, freed,
                 hist, malloc_gc_threshold, call, dump, weak, tick, err>>

\* retain and store: the mutator stores a reference to b in a (a property, a
\* constant, a closure variable, a prototype); b is retained (JS_DupValue) and
\* a enumerates it from now on
Store(a, b) ==
  /\ Idle
  /\ Allocated(a) /\ Allocated(b)
  /\ held[a] >= 1 /\ held[b] >= 1
  /\ MayStore(a, b)
  /\ children' = [children EXCEPT ![a] = Append(@, b)]
  /\ ref_count' = [ref_count EXCEPT ![b] = @ + 1]
  /\ snap' = NoSnap
  /\ last_gc' = FALSE
  /\ trig' = NoTrig
  /\ UNCHANGED <<nalloc, gc_obj_type, mark, free_mark, gc_obj_list,
                 tmp_obj_list, gc_zero_ref_count_list, gc_phase, held, stack,
                 finalized, freed, hist, malloc_gc_threshold, call, dump, weak, tick, err>>

\* release: the mutator drops one of its references to c
Release(c) ==
  /\ Idle
  /\ Allocated(c)
  /\ held[c] >= 1
  /\ held' = [held EXCEPT ![c] = @ - 1]
  /\ Commit(ReleaseRef(Cur, c))
  /\ snap' = NoSnap
  /\ last_gc' = FALSE
  /\ trig' = NoTrig
  /\ UNCHANGED <<nalloc, gc_obj_type, malloc_gc_threshold, call, dump, weak, tick>>

\* the heap at entry to JS_RunGC; again records that the previous operation
\* was a JS_RunGC
EntrySnap ==
  [state |-> "running", again |-> last_gc,
   nalloc |-> nalloc, ref_count |-> ref_count, mark |-> mark,
   children |-> children, held |-> held, finalized |-> finalized,
   freed |-> freed, gc_obj_list |-> gc_obj_list,
   malloc_gc_threshold |-> malloc_gc_threshold]

\* JS_RunGC is entered by the mutator
JS_RunGC ==
  /\ Idle
  /\ stack' = <<Frame("gc_decref", 0, 0)>>
  /\ last_gc' = FALSE
  /\ snap' = EntrySnap
  /\ trig' = NoTrig
  /\ UNCHANGED <<nalloc, gc_obj_type, ref_count, mark, free_mark, children,
                 gc_obj_list, tmp_obj_list, gc_zero_ref_count_list, gc_phase,
                 held, finalized, freed, hist, malloc_gc_threshold, call, dump, weak, tick,
                 err>>

\* JS_SetGCThreshold(rt, gc_threshold)
JS_SetGCThreshold(gc_threshold) ==
  /\ Idle
  /\ malloc_gc_threshold' = gc_threshold
  /\ trig' = NoTrig
  /\ UNCHANGED <<nalloc, gc_obj_type, ref_count, mark, free_mark, children,
                 gc_obj_list, tmp_obj_list, gc_zero_ref_count_list, gc_phase,
                 held, stack, finalized, freed, snap, last_gc, hist, call, dump, weak, tick,
                 err>>

\* force_gc with >= for >
force_gc_at_threshold(size) ==
  SizeAdd(malloc_size, size) >= malloc_gc_threshold

\* js_trigger_gc: force_gc, in a build without FORCE_GC_AT_MALLOC
force_gc(size) == SizeAdd(malloc_size, size) > malloc_gc_threshold

\* js_trigger_gc(rt, size): nothing is done, or JS_RunGC is called
js_trigger_gc(size) ==
  /\ Idle
  /\ LET this == [state |-> "running", ran |-> FALSE, size |-> size,
                  used |-> malloc_size, thr |-> malloc_gc_threshold,
                  heap |-> Heap]
     IN IF force_gc(size)
        THEN /\ stack' = <<Frame("js_trigger_gc", 0, 0),
                           Frame("gc_decref", 0, 0)>>
             /\ snap' = EntrySnap
             /\ last_gc' = FALSE
             /\ trig' = this
        ELSE /\ trig' = [this EXCEPT !.state = "done"]
             /\ UNCHANGED <<stack, snap, last_gc>>
  /\ UNCHANGED <<nalloc, gc_obj_type, ref_count, mark, free_mark, children,
                 gc_obj_list, tmp_obj_list, gc_zero_ref_count_list, gc_phase,
                 held, finalized, freed, hist, malloc_gc_threshold, call, dump, weak, tick,
                 err>>

\* ---- steps of the activations ----------------------------------------------------------
Step(m) ==
  /\ Commit(m)
  /\ tick' = 1 - tick
  /\ UNCHANGED <<nalloc, gc_obj_type, held, snap, last_gc,
                 malloc_gc_threshold, trig, call, dump, weak>>

GcDecref ==
  /\ Running
  /\ Top.fn = "gc_decref"
  /\ Step(SetTop(gc_decref(Cur), Frame("gc_scan", 0, 0)))

GcScan ==
  /\ Running
  /\ Top.fn = "gc_scan"
  /\ Step(SetTop(gc_scan(Cur), Frame("gc_free_cycles", 0, 0)))

\* GcFreeCyclesEnter without the assignment to gc_phase
GcFreeCyclesEnter_keeps_phase ==
  /\ Running
  /\ Top.fn = "gc_free_cycles"
  /\ Step(SetTop([Cur EXCEPT !.hist.tmp0 = tmp_obj_list],
                 Frame("gc_free_cycles_loop", 0, 0)))

\* gc_free_cycles: rt->gc_phase = JS_GC_PHASE_REMOVE_CYCLES
GcFreeCyclesEnter ==
  /\ Running
  /\ Top.fn = "gc_free_cycles"
  /\ Step(SetTop([Cur EXCEPT !.gc_phase = JS_GC_PHASE_REMOVE_CYCLES,
                              !.hist.tmp0 = tmp_obj_list],
                 Frame("gc_free_cycles_loop", 0, 0)))

\* GcFreeCyclesLoop taking the last element of tmp_obj_list
GcFreeCyclesLoop_from_tail ==
  /\ Running
  /\ Top.fn = "gc_free_cycles_loop"
  /\ tmp_obj_list # << >>
  /\ Step(gc_free_cycles_visit(Cur, tmp_obj_list[Len(tmp_obj_list)]))

\* gc_free_cycles: the head of the for (;;), with tmp_obj_list not empty
GcFreeCyclesLoop ==
  /\ Running
  /\ Top.fn = "gc_free_cycles_loop"
  /\ tmp_obj_list # << >>
  /\ Step(gc_free_cycles_visit(Cur, tmp_obj_list[1]))

\* gc_free_cycles: tmp_obj_list is empty, the loop ends and the phase is reset
GcFreeCyclesExit ==
  /\ Running
  /\ Top.fn = "gc_free_cycles_loop"
  /\ tmp_obj_list = << >>
  /\ Step(SetTop([Cur EXCEPT !.gc_phase = JS_GC_PHASE_NONE],
                 Frame("gc_free_cycles_sweep", 0, 0)))

GcFreeCyclesSweep ==
  /\ Running
  /\ Top.fn = "gc_free_cycles_sweep"
  /\ Step(SetTop(gc_free_cycles_sweep(Cur), Frame("JS_RunGC", 0, 0)))

\* JS_RunGC returns to its caller: the mutator or js_trigger_gc
GcReturn ==
  /\ Running
  /\ Top.fn = "JS_RunGC"
  /\ stack' = SubSeq(stack, 1, Len(stack) - 1)
  /\ snap' = NoSnap
  /\ last_gc' = TRUE
  /\ hist' = NoHist
  /\ trig' = IF trig.state = "running" THEN [trig EXCEPT !.ran = TRUE]
             ELSE trig
  /\ tick' = 1 - tick
  /\ UNCHANGED <<nalloc, gc_obj_type, ref_count, mark, free_mark, children,
                 gc_obj_list, tmp_obj_list, gc_zero_ref_count_list, gc_phase,
                 held, finalized, freed, malloc_gc_threshold, call, dump, weak, err>>

\* js_trigger_gc after JS_RunGC: the threshold is set from malloc_size
JsTriggerGcEnd ==
  /\ Running
  /\ Top.fn = "js_trigger_gc"
  /\ malloc_gc_threshold' = SizeAdd(malloc_size, malloc_size \div 2)
  /\ stack' = << >>
  /\ trig' = [trig EXCEPT !.state = "done"]
  /\ tick' = 1 - tick
  /\ UNCHANGED <<nalloc, gc_obj_type, ref_count, mark, free_mark, children,
                 gc_obj_list, tmp_obj_list, gc_zero_ref_count_list, gc_phase,
                 held, finalized, freed, snap, last_gc, hist, call, dump, weak, err>>

\* free_zero_refcount: the head of the for (;;), with the list not empty
FreeZeroRefcountLoop ==
  /\ Running
  /\ Top.fn = "free_zero_refcount"
  /\ gc_zero_ref_count_list # << >>
  /\ LET p == gc_zero_ref_count_list[1]
         rest == SeqSet(gc_zero_ref_count_list) \ {p}
     IN Step(IF ref_count[p] # 0
             THEN Fault(Cur, "assert ref_count == 0 in free_zero_refcount")
             ELSE free_gc_object([Cur EXCEPT !.hist.pending[p] = rest], p))

FreeZeroRefcountExit ==
  /\ Running
  /\ Top.fn = "free_zero_refcount"
  /\ gc_zero_ref_count_list = << >>
  /\ Step(free_zero_refcount_exit(Cur))

\* a finalizer (or free_var_ref, js_free_shape0) releases its next reference
FreeRelease ==
  /\ Running
  /\ Top.fn \in FreeFns
  /\ Top.i <= Len(children[Top.p])
  /\ Step(ReleaseRef(SetTop(Cur, [Top EXCEPT !.i = @ + 1]),
                     children[Top.p][Top.i]))

\* free_object / free_function_bytecode: all references released
FreeValueEnd ==
  /\ Running
  /\ Top.fn \in ValueFreeFns
  /\ Top.i > Len(children[Top.p])
  /\ Step(free_object_end(IF Top.fn = "free_object"
                          THEN class_finalizer(Pop(Cur), Top.p)
                          ELSE Pop(Cur),
                          Top.p))

\* free_var_ref / js_free_shape0: the value (prototype) released
FreeInlineEnd ==
  /\ Running
  /\ Top.fn \in InlineFreeFns
  /\ Top.i > Len(children[Top.p])
  /\ Step(free_var_ref_end(Pop(Cur), Top.p))

Next ==
  \/ \E type \in GCObjTypes :
       nalloc < MaxCells /\ add_gc_object(nalloc + 1, type)
  \/ \E a, b \in Cells : EdgeCount < MaxEdges /\ Store(a, b)
  \/ \E c \in Cells : Release(c)
  \/ JS_RunGC
  \/ GcDecref
  \/ GcScan
  \/ GcFreeCyclesEnter
  \/ GcFreeCyclesLoop
  \/ GcFreeCyclesExit
  \/ GcFreeCyclesSweep
  \/ GcReturn
  \/ FreeZeroRefcountLoop
  \/ FreeZeroRefcountExit
  \/ FreeRelease
  \/ FreeValueEnd
  \/ FreeInlineEnd

Spec == Init /\ [][Next]_vars

\* a step of the operation in progress: the thread that entered gc.c keeps
\* executing until the operation returns (or the process stops on a fault);
\* every such step flips tick, also an iteration that changes nothing else
Run == Running /\ tick' = 1 - tick

SpecLive == Init /\ [][Next]_vars /\ WF_tick(Run)

\* ---- the drain scenario: a larger heap that the mutator builds and releases;
\* no collection runs.  The first cell is an object or a function bytecode,
\* the others are objects.
DrainTypes(h) ==
  IF h = 1 THEN ValueTypes ELSE {JS_GC_OBJ_TYPE_JS_OBJECT}

NextDrain ==
  \/ \E type \in DrainTypes(nalloc + 1) :
       nalloc < MaxDrainCells /\ add_gc_object(nalloc + 1, type)
  \/ \E a, b \in Cells : EdgeCount < MaxDrainEdges /\ Store(a, b)
  \/ \E c \in Cells : Release(c)
  \/ FreeZeroRefcountLoop
  \/ FreeZeroRefcountExit
  \/ FreeRelease
  \/ FreeValueEnd

SpecDrain == InitDrain /\ [][NextDrain]_vars

\* ---- the cycle scenario: a heap of objects with more references, whose
\* cycles JS_RunGC collects
NextCycle ==
  \/ /\ nalloc < MaxCycleCells
     /\ add_gc_object(nalloc + 1, JS_GC_OBJ_TYPE_JS_OBJECT)
  \/ \E a, b \in Cells : EdgeCount < MaxCycleEdges /\ Store(a, b)
  \/ \E c \in Cells : Release(c)
  \/ JS_RunGC
  \/ GcDecref
  \/ GcScan
  \/ GcFreeCyclesEnter
  \/ GcFreeCyclesLoop
  \/ GcFreeCyclesExit
  \/ GcFreeCyclesSweep
  \/ GcReturn
  \/ FreeZeroRefcountLoop
  \/ FreeZeroRefcountExit
  \/ FreeRelease
  \/ FreeValueEnd

SpecCycle == InitCycle /\ [][NextCycle]_vars

\* ---- the trigger scenario: objects, the threshold and js_trigger_gc
NextTrigger ==
  \/ /\ nalloc < MaxCells
     /\ add_gc_object(nalloc + 1, JS_GC_OBJ_TYPE_JS_OBJECT)
  \/ \E a, b \in Cells : EdgeCount < MaxEdges /\ Store(a, b)
  \/ \E c \in Cells : Release(c)
  \/ \E v \in Sizes : JS_SetGCThreshold(v)
  \/ \E size \in Sizes : js_trigger_gc(size)
  \/ JS_RunGC
  \/ GcDecref
  \/ GcScan
  \/ GcFreeCyclesEnter
  \/ GcFreeCyclesLoop
  \/ GcFreeCyclesExit
  \/ GcFreeCyclesSweep
  \/ GcReturn
  \/ JsTriggerGcEnd
  \/ FreeZeroRefcountLoop
  \/ FreeZeroRefcountExit
  \/ FreeRelease
  \/ FreeValueEnd

SpecTrigger == Init /\ [][NextTrigger]_vars

\* ---- the allocator scenario: calls of the wrappers with every size and every
\* answer of the allocator of the runtime
RuntimeVars ==
  <<nalloc, gc_obj_type, ref_count, mark, free_mark, children, gc_obj_list,
    tmp_obj_list, gc_zero_ref_count_list, gc_phase, held, stack, finalized,
    freed, snap, last_gc, hist, malloc_gc_threshold, trig, dump, weak, tick,
    err>>

js_malloc(size) ==
  /\ \E null \in BOOLEAN : call' = js_malloc_result("js_malloc", size, null)
  /\ UNCHANGED RuntimeVars

js_mallocz(size) ==
  /\ \E null \in BOOLEAN : call' = js_malloc_result("js_mallocz", size, null)
  /\ UNCHANGED RuntimeVars

js_realloc(old, size) ==
  /\ \E null \in BOOLEAN :
       call' = js_realloc_result("js_realloc", old, size, null, FALSE, 0)
  /\ UNCHANGED RuntimeVars

js_realloc2(old, size) ==
  /\ \E null, pslack \in BOOLEAN : \E usable \in Sizes :
       call' = js_realloc_result("js_realloc2", old, size, null, pslack,
                                 IF null THEN 0 ELSE usable)
  /\ UNCHANGED RuntimeVars

NextAlloc ==
  \/ \E size \in Sizes : js_malloc(size)
  \/ \E size \in Sizes : js_mallocz(size)
  \/ \E old \in BOOLEAN : \E size \in Sizes : js_realloc(old, size)
  \/ \E old \in BOOLEAN : \E size \in Sizes : js_realloc2(old, size)

SpecAlloc == Init /\ [][NextAlloc]_vars

\* ---- the leaf scenario: the strings are created, then the objects; each
\* object gets at most one reference to an object and one to a string; then the
\* mutator drops its references in the order of creation and calls JS_RunGC
NumOfType(k) == Cardinality({c \in Cells : gc_obj_type[c] = k})

\* a holds no reference to a cell of the kind of b
SlotFree(a, b) ==
  \A i \in 1..Len(children[a]) :
    gc_obj_type[children[a][i]] # gc_obj_type[b]

AllHeld == \A c \in 1..nalloc : held[c] = 1

NoneHeld == \A c \in 1..nalloc : held[c] = 0

NextLeaf ==
  \/ /\ NumOfType(JS_TAG_STRING) = nalloc
     /\ nalloc < MaxStrings
     /\ NewString(nalloc + 1)
  \/ /\ NumOfType(JS_GC_OBJ_TYPE_JS_OBJECT) < MaxLeafCells
     /\ EdgeCount = 0
     /\ AllHeld
     /\ add_gc_object(nalloc + 1, JS_GC_OBJ_TYPE_JS_OBJECT)
  \/ \E a, b \in Cells :
       EdgeCount < MaxLeafEdges /\ AllHeld /\ SlotFree(a, b) /\ Store(a, b)
  \/ \E c \in Cells : (\A d \in 1..(c - 1) : held[d] = 0) /\ Release(c)
  \/ NoneHeld /\ JS_RunGC
  \/ GcDecref
  \/ GcScan
  \/ GcFreeCyclesEnter
  \/ GcFreeCyclesLoop
  \/ GcFreeCyclesExit
  \/ GcFreeCyclesSweep
  \/ GcReturn
  \/ FreeZeroRefcountLoop
  \/ FreeZeroRefcountExit
  \/ FreeRelease
  \/ FreeValueEnd

SpecLeaf == InitLeaf /\ [][NextLeaf]_vars

\* ---- the heap-snapshot dumper (gc.c, "GC dump") ------------------------------------------
\* bounds of the dump scenario (SpecDump): cells besides the context, and
\* references stored between cells
MaxDumpCells == 3
MaxDumpEdges == 3

\* fields of a node row: type, name, id, self_size, edge_count
NODE_FIELD_COUNT == 5

\* the context given to the dumper; its header is the first cell registered
CtxCell == 1

\* pointers that are not headers of cells: NULL, the arrays
\* ctx->native_error_proto and ctx->class_proto, and &sh->prop[i]
NULL == 0
native_error_proto == 0 - 1
class_proto == 0 - 2
ShapeProp(sh, i) == 0 - (10 * sh + i + 10)

\* node->name as js_gcdump_node_from_gp leaves it
NameUnset == 0 - 2

JS_TAG_FIRST == "FIRST"

JSGCDumpNode_TYPE_HIDDEN == "hidden"
JSGCDumpNode_TYPE_STRING == "string"
JSGCDumpNode_TYPE_OBJECT == "object"
JSGCDumpNode_TYPE_CODE == "code"
JSGCDumpNode_TYPE_CLOSURE == "closure"
JSGCDumpNode_TYPE_SYNTHETIC == "synthetic"
JSGCDumpEdge_TYPE_ELEM == "element"
JSGCDumpEdge_TYPE_PROP == "property"
JSGCDumpEdge_TYPE_INTERNAL == "internal"

\* sizes the dumper reports: sizeof(JSObject), sizeof(JSShape),
\* sizeof(JSShapeProperty), the size of a bytecode, the length of a string
ObjSize == 3
ShapeSize == 2
ShapePropSize == 1
CodeSize == 4
StrLen == 1

\* the characters of the string cell c
Text(c) ==
  LET t == <<"s1", "s2", "s3", "s4", "s5", "s6">>
  IN IF c \in 1..Len(t) THEN t[c] ELSE "s"

\* ---- the object model the dumper reads
\* p->shape: the shape the object references
ShapeOf(c) ==
  LET S == {i \in 1..Len(children[c]) :
              gc_obj_type[children[c][i]] = JS_GC_OBJ_TYPE_SHAPE}
  IN IF S = {} THEN NULL ELSE children[c][CHOOSE i \in S : TRUE]

\* sh->proto
ProtoOf(sh) ==
  IF sh = NULL \/ children[sh] = << >> THEN NULL ELSE children[sh][1]

\* p->u.func.function_bytecode of a function object
BytecodeOf(c) ==
  LET S == {i \in 1..Len(children[c]) :
              gc_obj_type[children[c][i]] = JS_GC_OBJ_TYPE_FUNCTION_BYTECODE}
  IN IF S = {} THEN NULL ELSE children[c][CHOOSE i \in S : TRUE]

JS_IsFunction(c) == BytecodeOf(c) # NULL

\* p->prop[]: the values of the properties of an object, in the order of the
\* shape
Props(c) ==
  SelectSeq(children[c],
            LAMBDA v : gc_obj_type[v] \in {JS_GC_OBJ_TYPE_JS_OBJECT,
                                           JS_TAG_STRING})

\* prs->atom of the i-th property of a shape: the first is "name"
PropAtom(i) == IF i = 1 THEN "name" ELSE "x"

\* sh->prop_count: the properties of the objects of the shape
PropCount(sh) ==
  LET O == {c \in Cells : gc_obj_type[c] = JS_GC_OBJ_TYPE_JS_OBJECT
                            /\ freed[c] = 0 /\ ShapeOf(c) = sh}
  IN IF O = {} THEN 0
     ELSE Len(Props(CHOOSE c \in O : \A o \in O : c <= o))

\* rt->class_array[class_id].class_name
ClassName(c) == IF JS_IsFunction(c) THEN "Function" ELSE "Object"

\* a C local: the value x is computed once and F is given it
Bind(x, F(_)) == CHOOSE r \in {F(v) : v \in {x}} : TRUE

\* ---- the dump context as a record d: nodes, strs, edges_len, blocks, rc (the
\* reference counts of the cells) and ret (the value the last call returned)
NodeIndex(d, gp) ==
  IF \E i \in 1..Len(d.nodes) : d.nodes[i].key = gp
  THEN (CHOOSE i \in 1..Len(d.nodes) : d.nodes[i].key = gp) - 1
  ELSE 0 - 1

\* js_gcdump_node_from_gp without the lookup in obj2node
js_gcdump_node_from_gp_no_lookup(d, gp) ==
  [d EXCEPT !.nodes = Append(@, [key |-> gp, id |-> Len(d.nodes),
                                 name |-> NameUnset,
                                 type |-> JSGCDumpNode_TYPE_HIDDEN,
                                 self_size |-> 0, edges |-> << >>]),
            !.blocks = @ \cup {<<"edges", Len(d.nodes)>>},
            !.ret = Len(d.nodes)]

\* js_gcdump_node_from_gp: the node of the pointer gp, made on first sight
js_gcdump_node_from_gp(d, gp) ==
  IF NodeIndex(d, gp) >= 0
  THEN [d EXCEPT !.ret = NodeIndex(d, gp)]
  ELSE [d EXCEPT !.nodes = Append(@, [key |-> gp, id |-> Len(d.nodes),
                                      name |-> NameUnset,
                                      type |-> JSGCDumpNode_TYPE_HIDDEN,
                                      self_size |-> 0, edges |-> << >>]),
                 !.blocks = @ \cup {<<"edges", Len(d.nodes)>>},
                 !.ret = Len(d.nodes)]

StrIndex(d, cstr) ==
  IF \E i \in 1..Len(d.strs) : d.strs[i] = cstr
  THEN (CHOOSE i \in 1..Len(d.strs) : d.strs[i] = cstr) - 1
  ELSE 0 - 1

\* js_gcdump_add_cstr without the lookup in str2id
js_gcdump_add_cstr_no_lookup(d, cstr) ==
  [d EXCEPT !.strs = Append(@, cstr),
            !.blocks = @ \cup {<<"str", Len(d.strs)>>},
            !.ret = Len(d.strs)]

\* js_gcdump_add_cstr: the index of the interned string
js_gcdump_add_cstr(d, cstr) ==
  IF StrIndex(d, cstr) >= 0
  THEN [d EXCEPT !.ret = StrIndex(d, cstr)]
  ELSE [d EXCEPT !.strs = Append(@, cstr),
                 !.blocks = @ \cup {<<"str", Len(d.strs)>>},
                 !.ret = Len(d.strs)]

\* js_gcdump_add_str: the characters of a JSString, interned
js_gcdump_add_str(d, str) == js_gcdump_add_cstr(d, Text(str))

\* js_gcdump_add_atom: the characters of an atom, interned; the string made
\* by JS_AtomToString is released before the return
js_gcdump_add_atom(d, atom) == js_gcdump_add_cstr(d, atom)

\* edge.to = node_i without the factor
EdgeTo_index(node_i) == node_i

\* edge.to = node_i * NODE_FIELD_COUNT
EdgeTo(node_i) == node_i * NODE_FIELD_COUNT

Edge(type, name_or_idx, node_i, site) ==
  [type |-> type, name_or_idx |-> name_or_idx, to |-> EdgeTo(node_i),
   site |-> site]

\* kid_array_push(&node->edges, &edge) without dc->edges_len++
EmitEdge_no_count(d, from_i, edge) ==
  [d EXCEPT !.nodes[from_i + 1].edges = Append(@, edge)]

\* kid_array_push(&node->edges, &edge); dc->edges_len++
EmitEdge(d, from_i, edge) ==
  [d EXCEPT !.nodes[from_i + 1].edges = Append(@, edge),
            !.edges_len = @ + 1]

SetName(d, node_i, name) == [d EXCEPT !.nodes[node_i + 1].name = name]

SetType(d, node_i, type) == [d EXCEPT !.nodes[node_i + 1].type = type]

SetSize(d, node_i, size) == [d EXCEPT !.nodes[node_i + 1].self_size = size]

\* ---- calls into the property machinery of the runtime
\* JS_GetOwnPropertyInternal(ctx, &desc, objp, JS_ATOM_name) found the
\* property: desc.value is a new reference to its value
JS_GetOwnPropertyInternal(d, value) == [d EXCEPT !.rc[value] = @ + 1]

\* JS_NewAtomStr(ctx, p) gives the atom of the string p and takes over the
\* caller's reference to p
JS_NewAtomStr(d, p) == [d EXCEPT !.rc[p] = @ - 1]

\* js_gcdump_get_node_name: the own property "name" when it is a string,
\* otherwise the class name (no constructor is found on these objects); the
\* descriptor is not released
js_gcdump_get_node_name(d, objp) ==
  IF Props(objp) # << >>
  THEN LET value == Props(objp)[1]
           desc == JS_GetOwnPropertyInternal(d, value)
       IN IF gc_obj_type[value] = JS_TAG_STRING
          THEN js_gcdump_add_atom(JS_NewAtomStr(desc, value), Text(value))
          ELSE js_gcdump_add_atom(desc, ClassName(objp))
  ELSE js_gcdump_add_atom(d, ClassName(objp))

\* ctx->global_obj: the first reference of the context
GlobalObj ==
  IF children[CtxCell] = << >> THEN NULL ELSE children[CtxCell][1]

\* JS_GCDumpFuncContext: parent, the label p (pn or pi, told apart by plen),
\* and the property slot (prs, pr) being traversed
NoAtom == ""

DumpFuncContext(parent) ==
  [parent |-> parent, plen |-> 0, pn |-> "", pi |-> 0, prs |-> NoAtom,
   pr |-> NULL]

\* js_gcdump_process_obj, case JS_GC_OBJ_TYPE_JS_OBJECT
ProcessObject(d, cell, node_i) ==
  IF d.nodes[node_i + 1].self_size # 0 THEN d
  ELSE
    Bind(js_gcdump_node_from_gp(
           SetSize(SetType(d, node_i,
                           IF JS_IsFunction(cell)
                           THEN JSGCDumpNode_TYPE_CLOSURE
                           ELSE JSGCDumpNode_TYPE_OBJECT),
                   node_i, ObjSize),
           ProtoOf(ShapeOf(cell))), LAMBDA b :
    Bind(js_gcdump_add_atom(b, "__proto__"), LAMBDA b1 :
    Bind(IF b.ret >= 0
         THEN EmitEdge(b1, node_i,
                       Edge(JSGCDumpEdge_TYPE_PROP, b1.ret, b.ret, "proto"))
         ELSE b, LAMBDA c :
    Bind(js_gcdump_node_from_gp(c, ShapeOf(cell)), LAMBDA e :
    Bind(js_gcdump_add_atom(e, "shape"), LAMBDA e1 :
    Bind(IF e.ret >= 0
         THEN EmitEdge(e1, node_i,
                       Edge(JSGCDumpEdge_TYPE_INTERNAL, e1.ret, e.ret,
                            "shape"))
         ELSE e, LAMBDA f :
    Bind(js_gcdump_node_from_gp(f, BytecodeOf(cell)), LAMBDA g0 :
    Bind(js_gcdump_add_atom(g0, "code"), LAMBDA g1 :
    Bind(IF JS_IsFunction(cell)
         THEN IF g0.ret >= 0
              THEN EmitEdge(g1, node_i,
                            Edge(JSGCDumpEdge_TYPE_INTERNAL, g1.ret, g0.ret,
                                 "code"))
              ELSE g0
         ELSE f, LAMBDA g :
    Bind(IF cell = GlobalObj
         THEN js_gcdump_add_atom(g, "global")
         ELSE js_gcdump_get_node_name(g, cell), LAMBDA n :
      IF g.nodes[node_i + 1].name = NameUnset
      THEN SetName(n, node_i, n.ret)
      ELSE g))))))))))

\* js_gcdump_process_obj, case JS_GC_OBJ_TYPE_SHAPE: the loop over sh->prop
RECURSIVE ProcessShapeProps(_, _, _, _)
ProcessShapeProps(d, sh, node_i, i) ==
  IF i >= PropCount(sh) THEN d
  ELSE
    Bind(js_gcdump_node_from_gp(d, ShapeProp(sh, i)), LAMBDA a :
    Bind(js_gcdump_add_atom(SetType(a, a.ret, JSGCDumpNode_TYPE_HIDDEN),
                            PropAtom(i + 1)), LAMBDA b :
    Bind(IF a.ret >= 0
         THEN EmitEdge(SetSize(SetName(b, a.ret, b.ret), a.ret,
                               ShapePropSize),
                       node_i,
                       Edge(JSGCDumpEdge_TYPE_ELEM, i, a.ret, "prs"))
         ELSE a, LAMBDA c :
      ProcessShapeProps(c, sh, node_i, i + 1))))

\* js_gcdump_process_obj, case JS_GC_OBJ_TYPE_SHAPE (every shape is hashed)
ProcessShape(d, sh, node_i) ==
  Bind(SetType(d, node_i, JSGCDumpNode_TYPE_HIDDEN), LAMBDA a :
  Bind(js_gcdump_add_atom(a, "shape"), LAMBDA n :
  Bind(IF a.nodes[node_i + 1].name = NameUnset
       THEN SetName(n, node_i, n.ret)
       ELSE a, LAMBDA b :
    IF b.nodes[node_i + 1].self_size = 0
    THEN Bind(SetSize(b, node_i, ShapeSize), LAMBDA c :
           ProcessShapeProps(c, sh, node_i, 0))
    ELSE b)))

\* js_gcdump_process_obj: the edge that connects the node to its parent
ParentEdge(d, node_i, dctx) ==
  IF dctx.parent >= 0 /\ node_i # 0 /\ (dctx.plen # 0 \/ dctx.prs # NoAtom)
  THEN IF dctx.plen # 0
       THEN IF dctx.plen > 0
            THEN Bind(js_gcdump_add_cstr(d, dctx.pn), LAMBDA n :
                   EmitEdge(n, dctx.parent,
                            Edge(JSGCDumpEdge_TYPE_PROP, n.ret, node_i,
                                 "parent")))
            ELSE EmitEdge(d, dctx.parent,
                          Edge(JSGCDumpEdge_TYPE_ELEM, dctx.pi, node_i,
                               "parent"))
       ELSE Bind(js_gcdump_add_atom(d, dctx.prs), LAMBDA n :
              EmitEdge(n, dctx.parent,
                       Edge(JSGCDumpEdge_TYPE_PROP, n.ret, node_i,
                            "parent")))
  ELSE d

\* js_gcdump_process_obj(rt, cell, dctx)
js_gcdump_process_obj(d, cell, dctx) ==
  Bind(js_gcdump_node_from_gp(d, cell), LAMBDA a :
  Bind(IF (IF dctx.pr # NULL THEN gc_obj_type[dctx.pr] ELSE JS_TAG_FIRST)
            = JS_TAG_STRING
       THEN Bind(js_gcdump_add_str(
                   SetType(a, a.ret, JSGCDumpNode_TYPE_STRING), cell),
                 LAMBDA s : SetSize(SetName(s, a.ret, s.ret), a.ret, StrLen))
       ELSE CASE gc_obj_type[cell] = JS_GC_OBJ_TYPE_JS_OBJECT ->
                   ProcessObject(a, cell, a.ret)
              [] gc_obj_type[cell] = JS_GC_OBJ_TYPE_FUNCTION_BYTECODE ->
                   SetSize(SetType(a, a.ret, JSGCDumpNode_TYPE_CODE),
                           a.ret, CodeSize)
              [] gc_obj_type[cell] = JS_GC_OBJ_TYPE_SHAPE ->
                   ProcessShape(a, cell, a.ret)
              [] OTHER -> a, LAMBDA b :
    ParentEdge(b, a.ret, dctx)))

\* JS_GCDumpValue on each value of a list
RECURSIVE DumpValues(_, _, _, _)
DumpValues(d, vals, dctx, i) ==
  IF i > Len(vals) THEN d
  ELSE Bind(js_gcdump_process_obj(d, vals[i], dctx), LAMBDA a :
         DumpValues(a, vals, dctx, i + 1))

\* gcdump_children of an object: the loop over the properties of the shape
RECURSIVE DumpProps(_, _, _, _)
DumpProps(d, p, dctx, i) ==
  IF i > Len(Props(p)) THEN d
  ELSE Bind(js_gcdump_process_obj(d, Props(p)[i],
                                  [dctx EXCEPT !.prs = PropAtom(i),
                                               !.pr = Props(p)[i]]),
            LAMBDA a : DumpProps(a, p, dctx, i + 1))

\* JS_Context_gcdump: the loop over ctx->class_proto
RECURSIVE DumpElems(_, _, _, _)
DumpElems(d, vals, dctx, i) ==
  IF i >= Len(vals) THEN d
  ELSE Bind(js_gcdump_process_obj(d, vals[i + 1], [dctx EXCEPT !.pi = i]),
            LAMBDA a : DumpElems(a, vals, dctx, i + 1))

\* JS_Context_gcdump: a synthetic node for an array of the context, linked to
\* the parent node
SyntheticNode(d, gp, cstr, dctx) ==
  Bind(js_gcdump_node_from_gp(d, gp), LAMBDA a :
  Bind(js_gcdump_add_atom(a, "Array"), LAMBDA b :
  Bind(js_gcdump_add_cstr(SetType(SetName(b, a.ret, b.ret), a.ret,
                                  JSGCDumpNode_TYPE_SYNTHETIC),
                          cstr), LAMBDA e :
    EmitEdge(e, dctx.parent,
             Edge(JSGCDumpEdge_TYPE_INTERNAL, e.ret, a.ret, "synthetic")))))

\* JS_Context_gcdump: global_obj is the first reference of the context, the
\* others are the elements of class_proto
JS_Context_gcdump(d, ctx, dctx) ==
  Bind(IF GlobalObj # NULL
       THEN js_gcdump_process_obj(d, GlobalObj,
                                  [dctx EXCEPT !.pn = "global_obj",
                                               !.plen = 10])
       ELSE d, LAMBDA a :
  Bind(SyntheticNode(a, native_error_proto, "native_error_proto", dctx),
       LAMBDA b :
  Bind(SyntheticNode(b, class_proto, "class_proto", dctx), LAMBDA c :
    DumpElems(c,
              IF children[ctx] = << >> THEN << >> ELSE Tail(children[ctx]),
              [dctx EXCEPT !.parent = NodeIndex(c, class_proto),
                           !.plen = 0 - 1],
              0))))

\* gcdump_children(rt, gp, js_gcdump_process_obj, dctx)
gcdump_children(d, gp, dctx) ==
  CASE gc_obj_type[gp] = JS_GC_OBJ_TYPE_JS_OBJECT -> DumpProps(d, gp, dctx, 1)
    [] gc_obj_type[gp] = JS_GC_OBJ_TYPE_FUNCTION_BYTECODE ->
         DumpValues(d, children[gp], dctx, 1)
    [] gc_obj_type[gp] = JS_GC_OBJ_TYPE_VAR_REF ->
         DumpValues(d, children[gp], dctx, 1)
    [] gc_obj_type[gp] = JS_GC_OBJ_TYPE_SHAPE ->
         IF ProtoOf(gp) # NULL
         THEN js_gcdump_process_obj(d, ProtoOf(gp), dctx)
         ELSE d
    [] gc_obj_type[gp] = JS_GC_OBJ_TYPE_JS_CONTEXT ->
         JS_Context_gcdump(d, gp, dctx)
    [] OTHER -> d

\* ---- the file
NodeRow(node) ==
  [type |-> node.type, name |-> node.name, id |-> node.id,
   self_size |-> node.self_size, edge_count |-> Len(node.edges)]

\* js_gcdump_write_nodes: one row for each node
js_gcdump_write_nodes(nodes) == [i \in 1..Len(nodes) |-> NodeRow(nodes[i])]

\* js_gcdump_write_edges: the edges of each node, node after node
RECURSIVE js_gcdump_write_edges(_)
js_gcdump_write_edges(nodes) ==
  Bind(nodes, LAMBDA l :
    IF l = << >> THEN << >>
    ELSE Head(l).edges \o js_gcdump_write_edges(Tail(l)))

\* js_gcdump_write2file with a stream that fopen gave
js_gcdump_write2file(d) ==
  [fp |-> "open", node_count |-> Len(d.nodes), edge_count |-> d.edges_len,
   nodes |-> js_gcdump_write_nodes(d.nodes),
   edges |-> js_gcdump_write_edges(d.nodes), strings |-> d.strs]

\* js_gcdump_new_ctx: the dump context, the arrays and the hash maps
js_gcdump_new_ctx ==
  [nodes |-> << >>, strs |-> << >>, edges_len |-> 0,
   blocks |-> {<<"dc", 0>>, <<"nodes", 0>>, <<"strs", 0>>, <<"str2id", 0>>,
               <<"obj2node", 0>>},
   rc |-> ref_count, ret |-> 0]

\* the dump context of the running call
DumpCtx ==
  [nodes |-> dump.nodes, strs |-> dump.strs, edges_len |-> dump.edges_len,
   blocks |-> dump.blocks, rc |-> ref_count, ret |-> 0]

\* what __js_gcdump_objects frees after the file is written
DumpFrees(d) ==
  {<<"edges", i - 1>> : i \in 1..Len(d.nodes)} \cup {<<"nodes", 0>>}
    \cup {<<"str", i - 1>> : i \in 1..Len(d.strs)}
    \cup {<<"strs", 0>>, <<"str2id", 0>>, <<"obj2node", 0>>, <<"dc", 0>>}

\* the part of the runtime the collector works on
GraphState ==
  <<gc_obj_list, ref_count, mark, gc_phase, tmp_obj_list,
    gc_zero_ref_count_list, children>>

DumpFrame ==
  <<nalloc, gc_obj_type, mark, free_mark, children, gc_obj_list, tmp_obj_list,
    gc_zero_ref_count_list, gc_phase, held, stack, finalized, freed, snap,
    last_gc, hist, malloc_gc_threshold, trig, call, weak, tick>>

\* __js_gcdump_objects is entered: the dump context is made and the context
\* gets the first node
js_gcdump_objects ==
  /\ Idle
  /\ dump.state = "none"
  /\ \E d \in {js_gcdump_node_from_gp(js_gcdump_new_ctx, CtxCell)} :
       dump' = [state |-> "walking", el |-> ListFirst(gc_obj_list),
                nodes |-> d.nodes, strs |-> d.strs,
                edges_len |-> d.edges_len, blocks |-> d.blocks,
                entry |-> GraphState, file |-> NoFile, ret |-> "none"]
  /\ UNCHANGED <<ref_count, err>>
  /\ UNCHANGED DumpFrame

\* __js_gcdump_objects: one turn of list_for_each over rt->gc_obj_list
DumpCell ==
  /\ err = {}
  /\ dump.state = "walking"
  /\ dump.el # 0
  /\ \E a \in {js_gcdump_node_from_gp(DumpCtx, dump.el)} :
     \E b \in {js_gcdump_process_obj(a, dump.el, DumpFuncContext(0 - 1))} :
     \E c \in {gcdump_children(b, dump.el, DumpFuncContext(a.ret))} :
       /\ dump' = [dump EXCEPT !.nodes = c.nodes, !.strs = c.strs,
                               !.edges_len = c.edges_len,
                               !.blocks = c.blocks,
                               !.el = ListNext(gc_obj_list, dump.el)]
       /\ ref_count' = c.rc
       /\ err' = IF a.ret >= 0 THEN err ELSE err \cup {"assert node_i >= 0"}
  /\ UNCHANGED DumpFrame

\* js_gcdump_write2file: fopen gives a stream or NULL, and the dumper prints
\* to what it got
DumpWrite ==
  /\ err = {}
  /\ dump.state = "walking"
  /\ dump.el = 0
  /\ \E opened \in BOOLEAN :
       IF opened
       THEN /\ dump' = [dump EXCEPT !.state = "written",
                                    !.file = js_gcdump_write2file(DumpCtx)]
            /\ err' = err
       ELSE /\ dump' = [dump EXCEPT !.state = "written",
                                    !.file = [NoFile EXCEPT !.fp = "NULL"]]
            /\ err' = err \cup {"fprintf to a NULL stream"}
  /\ UNCHANGED ref_count
  /\ UNCHANGED DumpFrame

\* __js_gcdump_objects after the file: the arrays, the strings, the hash maps
\* and the dump context are freed; js_gcdump_objects returns JS_NULL
DumpFree ==
  /\ err = {}
  /\ dump.state = "written"
  /\ dump' = [dump EXCEPT !.state = "returned",
                          !.blocks = @ \ DumpFrees(DumpCtx),
                          !.ret = "JS_NULL"]
  /\ UNCHANGED <<ref_count, err>>
  /\ UNCHANGED DumpFrame

\* ---- the dump scenario: a context; objects, shapes, bytecodes, var-refs and
\* strings are made and linked; then the dumper is called once
DumpTypes ==
  {JS_GC_OBJ_TYPE_JS_OBJECT, JS_GC_OBJ_TYPE_FUNCTION_BYTECODE,
   JS_GC_OBJ_TYPE_VAR_REF, JS_GC_OBJ_TYPE_SHAPE}

\* the runtime with one context, whose header is registered
InitDump ==
  /\ nalloc = 1
  /\ gc_obj_type = [c \in 1..(1 + MaxDumpCells) |->
                      IF c = CtxCell THEN JS_GC_OBJ_TYPE_JS_CONTEXT
                      ELSE NoType]
  /\ ref_count = [c \in 1..(1 + MaxDumpCells) |->
                    IF c = CtxCell THEN 1 ELSE 0]
  /\ mark = [c \in 1..(1 + MaxDumpCells) |-> 0]
  /\ free_mark = [c \in 1..(1 + MaxDumpCells) |-> 0]
  /\ children = [c \in 1..(1 + MaxDumpCells) |-> << >>]
  /\ gc_obj_list = <<CtxCell>>
  /\ tmp_obj_list = << >>
  /\ gc_zero_ref_count_list = << >>
  /\ gc_phase = JS_GC_PHASE_NONE
  /\ held = [c \in 1..(1 + MaxDumpCells) |-> IF c = CtxCell THEN 1 ELSE 0]
  /\ stack = << >>
  /\ finalized = [c \in 1..(1 + MaxDumpCells) |-> 0]
  /\ freed = [c \in 1..(1 + MaxDumpCells) |-> 0]
  /\ snap = NoSnap
  /\ last_gc = FALSE
  /\ hist = NoHist
  /\ malloc_gc_threshold = DefaultThreshold
  /\ trig = NoTrig
  /\ call = NoCall
  /\ dump = NoDump
  /\ weak = NoWeak
  /\ tick = 0
  /\ err = {}

\* the references the scenario stores: a property of an object is an object or
\* a string, and a function has one bytecode
DumpStore(a, b) ==
  gc_obj_type[a] = JS_GC_OBJ_TYPE_JS_OBJECT =>
    /\ gc_obj_type[b] # JS_GC_OBJ_TYPE_VAR_REF
    /\ gc_obj_type[b] = JS_GC_OBJ_TYPE_FUNCTION_BYTECODE => SlotFree(a, b)

\* every object has its shape
WellShaped ==
  \A c \in Cells :
    gc_obj_type[c] = JS_GC_OBJ_TYPE_JS_OBJECT => ShapeOf(c) # NULL

NextDump ==
  \/ /\ dump.state = "none"
     /\ \E type \in DumpTypes : add_gc_object(nalloc + 1, type)
  \/ dump.state = "none" /\ NewString(nalloc + 1)
  \/ \E a, b \in Cells :
       /\ dump.state = "none"
       /\ EdgeCount < MaxDumpEdges
       /\ DumpStore(a, b)
       /\ Store(a, b)
  \/ WellShaped /\ js_gcdump_objects
  \/ DumpCell
  \/ DumpWrite
  \/ DumpFree

SpecDump == InitDump /\ [][NextDump]_vars

\* ---- vocabulary of the properties -----------------------------------------------------
NoFault == err = {}

\* JS_RunGC has done all its work and is about to return to the mutator
AtReturn == stack # << >> /\ Top.fn = "JS_RunGC" /\ err = {}

InGC == snap.state = "running"

\* the cells that existed when the running JS_RunGC was entered
EntryCells == {c \in Cells : c <= snap.nalloc /\ snap.freed[c] = 0}

\* references to c stored in cell a at entry to JS_RunGC
EntryRefs(a, c) == Count(snap.children[a], c)

\* every strong reference to a cell of G comes from a cell of G
Hermetic(G) ==
  \A c \in G :
    /\ snap.held[c] = 0
    /\ \A a \in EntryCells \ G : EntryRefs(a, c) = 0

\* the cells reachable from S through the references held at entry to JS_RunGC
RECURSIVE EntryReach(_)
EntryReach(S) ==
  LET T == S \cup {c \in EntryCells : \E a \in S : EntryRefs(a, c) > 0}
  IN IF T = S THEN S ELSE EntryReach(T)

\* the cells reachable from a reference the mutator holds
EntryRooted == EntryReach({c \in EntryCells : snap.held[c] > 0})

\* the cells the running JS_RunGC has reclaimed
Reclaimed == {c \in EntryCells : freed[c] = 1}

\* references to c stored, at entry, in the cells of the set S
RefsFrom(S, c) ==
  LET RECURSIVE Sum(_)
      Sum(a) == IF a = 0 THEN 0
                ELSE (IF a \in S THEN EntryRefs(a, c) ELSE 0) + Sum(a - 1)
  IN Sum(Cardinality(Cells))

Live(c) == c <= nalloc /\ freed[c] = 0

\* number of the three lists c is linked on, with multiplicity
LinkCount(c) ==
  Count(gc_obj_list, c) + Count(tmp_obj_list, c)
    + Count(gc_zero_ref_count_list, c)

\* c is the cell of a teardown activation on the stack
BeingFreed(c) ==
  \E i \in 1..Len(stack) : stack[i].fn \in FreeFns /\ stack[i].p = c

\* c has released none of its references: its teardown has not begun, or has
\* begun and is about to release the first
NoneReleased(c) ==
  \/ finalized[c] = 0
  \/ \E i \in 1..Len(stack) :
       stack[i].fn \in FreeFns /\ stack[i].p = c /\ stack[i].i = 1

C2_ExternalPreservation ==
  /\ InGC => \A c \in EntryRooted : finalized[c] = 0 /\ freed[c] = 0
  /\ AtReturn => \A c \in EntryRooted : InList(gc_obj_list, c)

\* a two-cycle of objects, one of them held: both alive, counts 2 and 1
C2_Witness ==
  /\ AtReturn
  /\ \E a, b \in EntryCells :
       /\ a # b
       /\ snap.held[a] = 1 /\ snap.held[b] = 0
       /\ EntryRefs(a, b) = 1 /\ EntryRefs(b, a) = 1
       /\ InList(gc_obj_list, a) /\ InList(gc_obj_list, b)
       /\ ref_count[a] = 2 /\ ref_count[b] = 1

\* ---- C3 -------------------------------------------------------------------------------
\* C3: finalizer once.  The teardown of a cell never begins twice; a cell that
\* has been deallocated went through it once; and whenever no operation is in
\* progress the cells that went through it are exactly the deallocated ones.
C3_FinalizerOnce ==
  \A c \in Cells :
    /\ finalized[c] <= 1
    /\ freed[c] = 1 => finalized[c] = 1
    /\ Idle /\ finalized[c] = 1 => freed[c] = 1

\* during the free pass a finalized, not yet deallocated cell has come to count 0
C3_Witness ==
  /\ gc_phase = JS_GC_PHASE_REMOVE_CYCLES
  /\ \E c \in Cells :
       /\ finalized[c] = 1 /\ freed[c] = 0
       /\ ref_count[c] = 0
       /\ InList(gc_zero_ref_count_list, c)
  /\ \E d \in Cells :
       /\ finalized[d] = 1 /\ freed[d] = 0 /\ BeingFreed(d)

\* ---- C4 -------------------------------------------------------------------------------
\* C4 as stated: after a JS_RunGC that reclaims S, every cell not in S has the
\* ref_count it had at entry.
C4_Original ==
  AtReturn => \A c \in EntryCells \ Reclaimed : ref_count[c] = snap.ref_count[c]

\* C4 amended: after a JS_RunGC that reclaims S, every cell not in S has the
\* ref_count it had at entry minus the number of references the cells of S
\* held to it.
C4_RefcountBalance ==
  AtReturn =>
    \A c \in EntryCells \ Reclaimed :
      ref_count[c] = snap.ref_count[c] - RefsFrom(Reclaimed, c)

\* a cell survives a collection that reclaimed a cell holding a reference to it
C4_Witness ==
  /\ AtReturn
  /\ \E c \in EntryCells \ Reclaimed :
       /\ RefsFrom(Reclaimed, c) > 0
       /\ ref_count[c] > 0

\* ---- C5 -------------------------------------------------------------------------------
\* C5: idempotence.  A JS_RunGC entered right after a JS_RunGC returned runs
\* without a failed assertion, tears down and deallocates nothing, and leaves
\* every ref_count and mark as it found them.
C5_Idempotence ==
  /\ InGC /\ snap.again =>
       /\ NoFault
       /\ finalized = snap.finalized
       /\ freed = snap.freed
  /\ AtReturn /\ snap.again =>
       /\ ref_count = snap.ref_count
       /\ mark = snap.mark

\* a second collection in a row returns on a heap where a cell the mutator
\* does not hold is kept alive by another
C5_Witness ==
  /\ AtReturn
  /\ snap.again
  /\ \E c \in EntryCells : snap.held[c] = 0 /\ InList(gc_obj_list, c)

\* ---- C6 -------------------------------------------------------------------------------
\* C6: list disjointness.  Every allocated cell is linked exactly once on
\* exactly one of the three lists, no deallocated or unallocated cell is
\* linked, and when JS_RunGC returns (and whenever no operation is in
\* progress) tmp_obj_list and gc_zero_ref_count_list are empty.
C6_ListDisjointness ==
  /\ \A c \in Cells : LinkCount(c) = (IF Live(c) THEN 1 ELSE 0)
  /\ AtReturn \/ Idle =>
       tmp_obj_list = << >> /\ gc_zero_ref_count_list = << >>

\* the free pass holds a cell on tmp_obj_list and one on gc_zero_ref_count_list
C6_Witness ==
  /\ tmp_obj_list # << >>
  /\ gc_zero_ref_count_list # << >>
  /\ \A c \in Cells : LinkCount(c) = (IF Live(c) THEN 1 ELSE 0)

\* ---- C7 -------------------------------------------------------------------------------
\* C7: mark zero at rest.  Whenever no operation is in progress, and when
\* JS_RunGC returns, every cell on gc_obj_list has mark 0; the assertion
\* mark == 0 of gc_decref never fails.
C7_MarkZeroAtRest ==
  /\ Idle \/ AtReturn => \A c \in SeqSet(gc_obj_list) : mark[c] = 0
  /\ "assert mark == 0 in gc_decref" \notin err

\* a collection has returned and left a cell the scan pass pulled back
C7_Witness ==
  /\ Idle
  /\ last_gc
  /\ \E c \in SeqSet(gc_obj_list) : held[c] = 0

\* ---- C8 -------------------------------------------------------------------------------
\* C8: single GC phase.  gc_phase is one of the three phases; it is DECREF only
\* while an activation of free_zero_refcount is on the stack, REMOVE_CYCLES
\* only while JS_RunGC is in the loop of gc_free_cycles, and NONE whenever no
\* operation is in progress.
C8_SinglePhase ==
  /\ gc_phase \in {JS_GC_PHASE_NONE, JS_GC_PHASE_DECREF,
                   JS_GC_PHASE_REMOVE_CYCLES}
  /\ gc_phase = JS_GC_PHASE_DECREF =>
       \E i \in 1..Len(stack) : stack[i].fn = "free_zero_refcount"
  /\ gc_phase = JS_GC_PHASE_REMOVE_CYCLES =>
       stack # << >> /\ stack[1].fn = "gc_free_cycles_loop"
  /\ Idle => gc_phase = JS_GC_PHASE_NONE

\* a release that started the drain loop has returned
C8_Witness ==
  /\ Idle
  /\ ~last_gc
  /\ \E c \in Cells : finalized[c] = 1 /\ freed[c] = 1

C10_MatchedAllocation ==
  /\ "double free" \notin err
  /\ "release of freed memory" \notin err
  /\ Idle =>
       /\ {c \in Cells : Live(c)} = SeqSet(gc_obj_list)
       /\ Cardinality({c \in Cells : Live(c)}) = Len(gc_obj_list)

\* cells have been reclaimed both by the drain loop and by the collector
C10_Witness ==
  /\ Idle
  /\ last_gc
  /\ \E c \in Cells : freed[c] = 1
  /\ gc_obj_list # << >>

\* ---- C11 ------------------------------------------------------------------------------
\* C11: termination.  Every operation in progress (a JS_RunGC in any of its
\* three passes, a release that started the drain loop) returns to the mutator.
C11_Termination == (stack # << >>) ~> (stack = << >>)

\* a collection is about to return after its free pass reclaimed some cells and
\* its scan pass kept others
C11_Witness ==
  /\ AtReturn
  /\ Reclaimed # {}
  /\ EntryCells \ Reclaimed # {}

\* C12: when JS_RunGC reclaims two objects that reference each other, exactly
\* one of the two finalizers got FALSE from JS_IsLiveObject on its peer and the
\* other got TRUE, and the memory each of them inspected was still allocated.
TwoCycle(a, b) ==
  /\ a # b
  /\ gc_obj_type[a] = JS_GC_OBJ_TYPE_JS_OBJECT
  /\ gc_obj_type[b] = JS_GC_OBJ_TYPE_JS_OBJECT
  /\ EntryRefs(a, b) > 0
  /\ EntryRefs(b, a) > 0

\* what the finalizer of a observed of b
Seen(a, b) == {o \in hist.seen[a] : o.cell = b}

C12_ZombieObservation ==
  AtReturn =>
    \A a, b \in Reclaimed :
      TwoCycle(a, b) =>
        /\ Cardinality(Seen(a, b)) = 1
        /\ Cardinality(Seen(b, a)) = 1
        /\ \A o \in Seen(a, b) \cup Seen(b, a) : o.alloc
        /\ \E o \in Seen(a, b) : \E q \in Seen(b, a) : o.live # q.live

C12_Witness ==
  /\ AtReturn
  /\ \E a, b \in Reclaimed :
       /\ TwoCycle(a, b)
       /\ \E o \in Seen(a, b) : o.live
       /\ \E q \in Seen(b, a) : ~q.live /\ q.alloc

\* C13: zombie rule.  During the free pass every object whose teardown is over
\* and whose memory is not yet deallocated has free_mark = 1 and neither shape
\* nor properties; and at all times JS_IsLiveObject is TRUE exactly for the
\* allocated objects never passed to free_object (FALSE for zombies and for
\* cells that are not objects).
OnStack(c) == \E i \in 1..Len(stack) : stack[i].fn \in FreeFns /\ stack[i].p = c

Zombie(c) ==
  /\ gc_obj_type[c] = JS_GC_OBJ_TYPE_JS_OBJECT
  /\ finalized[c] >= 1
  /\ freed[c] = 0
  /\ ~OnStack(c)

C13_ZombieRule ==
  /\ gc_phase = JS_GC_PHASE_REMOVE_CYCLES =>
       \A c \in Cells : Zombie(c) => free_mark[c] = 1 /\ children[c] = << >>
  /\ \A c \in Cells :
       Allocated(c) =>
         (JS_IsLiveObject(Cur, c) <=>
            gc_obj_type[c] = JS_GC_OBJ_TYPE_JS_OBJECT /\ finalized[c] = 0)

C13_Witness ==
  /\ gc_phase = JS_GC_PHASE_REMOVE_CYCLES
  /\ \E c, d \in Cells :
       /\ Zombie(c) /\ ~JS_IsLiveObject(Cur, c)
       /\ Allocated(d) /\ JS_IsLiveObject(Cur, d)

\* C14: depth-first drain order.  In the drain loop a release in phase NONE
\* started, while a cell made zero by the teardown of X (or, transitively, by
\* the teardown of such a cell) is not yet finalized, no cell that was pending
\* on gc_zero_ref_count_list when X was popped has been finalized.
RECURSIVE ZeroedUnder(_, _, _)
ZeroedUnder(d, x, n) ==
  /\ n > 0
  /\ hist.zeroed_by[d] # 0
  /\ \/ hist.zeroed_by[d] = x
     \/ ZeroedUnder(hist.zeroed_by[d], x, n - 1)

InDrain == stack # << >> /\ stack[1].fn = "free_zero_refcount"

C14_DepthFirstDrain ==
  InDrain =>
    \A x, d \in Cells :
      (ZeroedUnder(d, x, Cardinality(Cells)) /\ finalized[d] = 0) =>
        \A s \in hist.pending[x] : finalized[s] = 0

\* a cell zeroed by the teardown of a child has been finalized while the
\* child's sibling is still pending
C14_Witness ==
  /\ InDrain
  /\ \E x, d \in Cells :
       /\ ZeroedUnder(d, x, Cardinality(Cells))
       /\ finalized[d] = 1
       /\ hist.zeroed_by[x] # 0
       /\ \E s \in hist.pending[x] :
            finalized[s] = 0 /\ hist.zeroed_by[s] = hist.zeroed_by[x]

\* C15: finalizer order inside a cycle pass.  From the start of the free pass to
\* the return of JS_RunGC, the object and bytecode cells gc_free_cycles has
\* finalized so far, followed by the not yet finalized ones still on
\* tmp_obj_list, are the object and bytecode cells of tmp_obj_list as it was
\* when the free pass began, in that order: finalization follows that order and
\* no finalizer reorders or removes a cell that is waiting.
ValueCells(l) == SelectSeq(l, LAMBDA c : gc_obj_type[c] \in ValueTypes)

Waiting(l) == SelectSeq(ValueCells(l), LAMBDA c : finalized[c] = 0)

FreePassBegun ==
  /\ InGC
  /\ stack # << >>
  /\ stack[1].fn \in {"gc_free_cycles_loop", "gc_free_cycles_sweep", "JS_RunGC"}

C15_FinalizerOrder ==
  FreePassBegun =>
    hist.fin \o Waiting(tmp_obj_list) = ValueCells(hist.tmp0)

\* two cells finalized, in the order of the list, a third kind of cell or not
C15_Witness ==
  /\ AtReturn
  /\ Len(hist.fin) >= 2
  /\ hist.fin = ValueCells(hist.tmp0)

\* C16: order of tmp_obj_list at the start of the free pass.  A cell is moved
\* to tmp_obj_list when gc_decref has visited it and every cell that references
\* it; the cells are on tmp_obj_list in the order of these moves: by the
\* position, on gc_obj_list at entry to JS_RunGC, of the later of the cell and
\* its last referrer, a cell moved during the visit of its referrer coming
\* before that referrer and after the cells that visit moved earlier.  When no
\* cell on the list is referenced from a cell behind it on gc_obj_list, this
\* is the order of gc_obj_list.
Pos(c) == ListIndex(snap.gc_obj_list, c)

Referrers(c) == {r \in SeqSet(snap.gc_obj_list) : EntryRefs(r, c) > 0}

SetMax(S) == CHOOSE x \in S : \A y \in S : y <= x

\* the position whose visit by gc_decref moved c
MoveTime(c) == SetMax({Pos(c)} \cup {Pos(r) : r \in Referrers(c)})

\* the place of c among the cells moved by the same visit
MoveRank(c) ==
  LET r == snap.gc_obj_list[MoveTime(c)]
  IN IF r = c THEN Len(snap.children[r]) + 1
     ELSE SetMax({i \in 1..Len(snap.children[r]) : snap.children[r][i] = c})

MovedBefore(c, d) ==
  \/ MoveTime(c) < MoveTime(d)
  \/ MoveTime(c) = MoveTime(d) /\ MoveRank(c) < MoveRank(d)

InLiveOrder(l) ==
  \A i, j \in 1..Len(l) : i < j => Pos(l[i]) < Pos(l[j])

C16_TmpOrder ==
  FreePassBegun =>
    /\ \A i, j \in 1..Len(hist.tmp0) :
         i < j => MovedBefore(hist.tmp0[i], hist.tmp0[j])
    /\ (\A c \in SeqSet(hist.tmp0) : MoveTime(c) = Pos(c))
         => InLiveOrder(hist.tmp0)

\* the claim as stated: tmp_obj_list is in the order of gc_obj_list at entry
C16_Original == FreePassBegun => InLiveOrder(hist.tmp0)

\* three condemned cells, not in the order of gc_obj_list, two of them moved
\* by the same visit
C16_Witness ==
  /\ FreePassBegun
  /\ Len(hist.tmp0) >= 3
  /\ ~InLiveOrder(hist.tmp0)
  /\ \E c, d \in SeqSet(hist.tmp0) : c # d /\ MoveTime(c) = MoveTime(d)

\* C17: leaf freed before owner memory.  A string whose only reference is held
\* by a cell JS_RunGC reclaims is freed inside the finalizer of that cell: not
\* before the finalizer starts, and by the time it ends; and while the string is
\* allocated, the memory of the owner and of every cell the owner references is
\* allocated too.
OwnedBy(s, o) ==
  /\ gc_obj_type[s] = JS_TAG_STRING
  /\ s \in EntryCells
  /\ snap.held[s] = 0
  /\ snap.ref_count[s] = 1
  /\ o \in SeqSet(hist.tmp0)
  /\ EntryRefs(o, s) > 0

RECURSIVE TmpReach(_)
TmpReach(S) ==
  LET T == S \cup {c \in SeqSet(hist.tmp0) : \E a \in S : EntryRefs(a, c) > 0}
  IN IF T = S THEN S ELSE TmpReach(T)

SameCycle(a, b) == b \in TmpReach({a}) /\ a \in TmpReach({b})

TriggerDone == trig.state = "done"

C18_TriggerPolicy ==
  /\ trig.state = "running" => SizeAdd(trig.used, trig.size) > trig.thr
  /\ TriggerDone =>
       /\ trig.ran <=> SizeAdd(trig.used, trig.size) > trig.thr
       /\ trig.ran =>
            malloc_gc_threshold = SizeAdd(malloc_size, malloc_size \div 2)
       /\ ~trig.ran => malloc_gc_threshold = trig.thr /\ Heap = trig.heap

\* a call that ran a collection which freed cells, so that the new threshold
\* comes from a malloc_size smaller than the one the call found
C18_Witness ==
  /\ TriggerDone
  /\ trig.ran
  /\ malloc_size < trig.used
  /\ malloc_size > 0
  /\ malloc_gc_threshold # SizeAdd(trig.used, trig.used \div 2)

\* C19: automatic collection disabled.  With the threshold at the sentinel
\* (size_t)-1, no call of js_trigger_gc, whatever its size and malloc_size,
\* runs a collection or changes the threshold; a JS_RunGC the mutator calls
\* still reclaims every dead cycle and leaves the threshold at the sentinel.
Manual == InGC /\ trig.state = "none"

C19_Disabled ==
  /\ trig.state = "running" => trig.thr # Sentinel
  /\ (TriggerDone /\ trig.thr = Sentinel) =>
       ~trig.ran /\ malloc_gc_threshold = Sentinel
  /\ (Manual /\ snap.malloc_gc_threshold = Sentinel) =>
       /\ malloc_gc_threshold = Sentinel
       /\ AtReturn =>
            \A G \in SUBSET EntryCells :
              Hermetic(G) => \A c \in G : freed[c] = 1

\* with the sentinel set, a call whose size makes the sum wrap has returned
\* with the dead cycle still in the heap
C19_Witness ==
  /\ TriggerDone
  /\ trig.thr = Sentinel
  /\ trig.used + trig.size > Sentinel
  /\ \E a, b \in Cells :
       /\ a # b
       /\ Allocated(a) /\ Allocated(b)
       /\ held[a] = 0 /\ held[b] = 0

\* with the sentinel set, a JS_RunGC of the mutator has reclaimed a dead cycle
C19_WitnessManual ==
  /\ Manual
  /\ AtReturn
  /\ snap.malloc_gc_threshold = Sentinel
  /\ \E G \in SUBSET EntryCells : G # {} /\ Hermetic(G)

\* C20: out-of-memory reporting.  Each of js_malloc, js_mallocz, js_realloc and
\* js_realloc2 raises the out-of-memory condition, and then returns NULL,
\* exactly when the allocator returned null for a request of nonzero size; it
\* raises nothing for a request of size zero or when the allocation succeeds.
Wrappers == {"js_malloc", "js_mallocz", "js_realloc", "js_realloc2"}

C20_OutOfMemory ==
  call.fn \in Wrappers =>
    /\ call.oom <=> (call.null /\ call.size # 0)
    /\ call.oom => call.ret_null

\* what the four wrappers do: js_realloc and js_realloc2 keep to the rule,
\* js_malloc and js_mallocz raise on every null, also for size zero
C20_AsCoded ==
  /\ call.fn \in {"js_realloc", "js_realloc2"} =>
       (call.oom <=> (call.null /\ call.size # 0))
  /\ call.fn \in {"js_malloc", "js_mallocz"} => (call.oom <=> call.null)
  /\ call.oom => call.ret_null

\* ---- the snapshots of the dumper ---------------------------------------------------------
\* a snapshot was written to the file
Written == dump.file.fp = "open"

\* the sum of the edge_count fields of the node rows
RECURSIVE EdgeCountFields(_)
EdgeCountFields(rows) ==
  IF rows = << >> THEN 0
  ELSE Head(rows).edge_count + EdgeCountFields(Tail(rows))

\* C21: in every snapshot the edge_count of the header equals the number of
\* edge rows written, which equals the sum of the edge_count fields of the
\* node rows
C21_SnapshotEdgeCount ==
  Written =>
    /\ dump.file.edge_count = Len(dump.file.edges)
    /\ Len(dump.file.edges) = EdgeCountFields(dump.file.nodes)

\* a snapshot with edges of several nodes, one node with two edges or more
C21_Witness ==
  /\ Written
  /\ dump.file.edge_count >= 4
  /\ \E i \in 1..Len(dump.file.nodes) : dump.file.nodes[i].edge_count >= 2
  /\ \E i \in 2..Len(dump.file.nodes) : dump.file.nodes[i].edge_count >= 1

\* C22: every edge of a snapshot has a to_node_offset that is a non-negative
\* multiple of NODE_FIELD_COUNT and that, divided by NODE_FIELD_COUNT, is less
\* than node_count
C22_SnapshotEdgeTargets ==
  Written =>
    \A j \in 1..Len(dump.file.edges) :
      /\ dump.file.edges[j].to >= 0
      /\ dump.file.edges[j].to % NODE_FIELD_COUNT = 0
      /\ dump.file.edges[j].to \div NODE_FIELD_COUNT < dump.file.node_count

\* a snapshot with an edge to the last node and an edge to a node made for a
\* NULL prototype
C22_Witness ==
  /\ Written
  /\ dump.file.node_count >= 4
  /\ \E j \in 1..Len(dump.file.edges) :
       dump.file.edges[j].to = (dump.file.node_count - 1) * NODE_FIELD_COUNT
  /\ \E j \in 1..Len(dump.file.edges) :
       /\ dump.file.edges[j].site = "proto"
       /\ dump.nodes[dump.file.edges[j].to \div NODE_FIELD_COUNT + 1].key = NULL

\* the indices of the strings of the snapshot
NameRange == 0..(Len(dump.file.strings) - 1)

\* C23: in every snapshot the name of every node and the name of every
\* property or internal edge is an index into strings
C23_SnapshotNameIndices ==
  Written =>
    /\ \A i \in 1..Len(dump.file.nodes) : dump.file.nodes[i].name \in NameRange
    /\ \A j \in 1..Len(dump.file.edges) :
         dump.file.edges[j].type \in {JSGCDumpEdge_TYPE_PROP,
                                      JSGCDumpEdge_TYPE_INTERNAL}
           => dump.file.edges[j].name_or_idx \in NameRange

\* what the dumper does for the names: the nodes of objects, shapes, shape
\* properties, strings and synthetic arrays and the property and internal
\* edges carry an index into strings; the nodes of the context, of bytecodes,
\* of var-refs and of a NULL prototype carry the -2 of js_gcdump_node_from_gp
C23_AsCoded ==
  Written =>
    /\ \A i \in 1..Len(dump.file.nodes) :
         LET key == dump.nodes[i].key
             unnamed ==
               \/ key = NULL
               \/ /\ key \in Cells
                  /\ gc_obj_type[key] \in {JS_GC_OBJ_TYPE_JS_CONTEXT,
                                           JS_GC_OBJ_TYPE_FUNCTION_BYTECODE,
                                           JS_GC_OBJ_TYPE_VAR_REF}
         IN IF unnamed
            THEN dump.file.nodes[i].name = NameUnset
            ELSE dump.file.nodes[i].name \in NameRange
    /\ \A j \in 1..Len(dump.file.edges) :
         dump.file.edges[j].type \in {JSGCDumpEdge_TYPE_PROP,
                                      JSGCDumpEdge_TYPE_INTERNAL}
           => dump.file.edges[j].name_or_idx \in NameRange

\* the dumper is running or has returned
Dumping == dump.state # "none"

\* the edges of all nodes made so far
DumpEdges == js_gcdump_write_edges(dump.nodes)

\* C24: node 0 is the node of the context given to the dumper, every pointer
\* has one node, every cell walked has a node, the id of a node is its index,
\* and no edge to a parent made by js_gcdump_process_obj leads to node 0
C24_SnapshotRoot ==
  Dumping =>
    /\ dump.nodes # << >>
    /\ dump.nodes[1].key = CtxCell
    /\ \A i \in 1..Len(dump.nodes) : dump.nodes[i].id = i - 1
    /\ \A i, j \in 1..Len(dump.nodes) :
         dump.nodes[i].key = dump.nodes[j].key => i = j
    /\ \A k \in 1..Len(gc_obj_list) :
         (dump.el = 0 \/ k < ListIndex(gc_obj_list, dump.el))
           => NodeIndex(dump, gc_obj_list[k]) >= 0
    /\ \A j \in 1..Len(DumpEdges) :
         DumpEdges[j].site = "parent" => DumpEdges[j].to # 0
    /\ Written =>
         /\ dump.file.nodes[1].id = 0
         /\ \A i \in 1..Len(dump.file.nodes) : dump.file.nodes[i].id = i - 1

\* a snapshot in which a node is the target of edges of two nodes and in
\* which an edge to a parent was made
C24_Witness ==
  /\ Written
  /\ dump.file.node_count >= 4
  /\ \E i, j \in 1..Len(dump.nodes) :
       /\ i # j
       /\ \E a \in 1..Len(dump.nodes[i].edges) :
            \E b \in 1..Len(dump.nodes[j].edges) :
              dump.nodes[i].edges[a].to = dump.nodes[j].edges[b].to
  /\ \E j \in 1..Len(dump.file.edges) : dump.file.edges[j].site = "parent"

\* the dumper has returned to its caller
Returned == dump.state = "returned"

\* C25: a call of the dumper leaves the live list, the counts, the marks, the
\* phase and the two other lists as they were, and frees all it allocated
C25_DumperFrame ==
  Returned => (GraphState = dump.entry /\ dump.blocks = {})

\* what the dumper does: all it allocated is freed and the lists, the marks
\* and the phase are as before; the count of a cell changes only for a cell
\* that is the value, not a string, of the own property "name" of an object
\* the dumper named, and it grows
C25_AsCoded ==
  Returned =>
    /\ dump.blocks = {}
    /\ <<gc_obj_list, mark, gc_phase, tmp_obj_list, gc_zero_ref_count_list,
         children>>
       = <<dump.entry[1], dump.entry[3], dump.entry[4], dump.entry[5],
           dump.entry[6], dump.entry[7]>>
    /\ \A c \in Cells :
         ref_count[c] # dump.entry[2][c] =>
           /\ ref_count[c] > dump.entry[2][c]
           /\ gc_obj_type[c] # JS_TAG_STRING
           /\ \E o \in Cells :
                /\ gc_obj_type[o] = JS_GC_OBJ_TYPE_JS_OBJECT
                /\ o # GlobalObj
                /\ Props(o) # << >>
                /\ Props(o)[1] = c

\* fopen gave NULL
OpenFailed == dump.file.fp = "NULL"

\* C26: when the file cannot be opened the dumper does not use the stream,
\* frees what it allocated and returns a null value
C26_SnapshotIOFailure ==
  OpenFailed =>
    /\ "fprintf to a NULL stream" \notin err
    /\ Returned => (dump.blocks = {} /\ dump.ret = "JS_NULL")

\* what the dumper does: it prints to the stream whatever fopen gave
C26_AsCoded == OpenFailed <=> "fprintf to a NULL stream" \in err

\* ---- releases that bring a count to zero -------------------------------------------------
\* the count of a cell is zero and its memory may or may not be freed
ZeroCells ==
  {c \in 1..nalloc : gc_obj_type[c] \in GCObjTypes /\ ref_count[c] = 0}

\* a release by the mutator has just brought a count to zero: free_zero_refcount
\* is entered and has freed nothing yet
DrainEntered ==
  /\ err = {}
  /\ Len(stack) = 1
  /\ Top.fn = "free_zero_refcount"
  /\ hist.fin = << >>

\* free_zero_refcount finds its list empty and is about to return
DrainDone ==
  /\ err = {}
  /\ Len(stack) = 1
  /\ Top.fn = "free_zero_refcount"
  /\ gc_zero_ref_count_list = << >>

\* C27: a release that brings the count of an object or bytecode to zero while
\* the phase is NONE moves the cell from gc_obj_list to gc_zero_ref_count_list
\* and sets the phase to DECREF; when the drain ends every cell whose count
\* went to zero has been finalized, unlinked and freed; when the release has
\* returned gc_zero_ref_count_list is empty and the phase is NONE
C27_DrainCompleteness ==
  /\ DrainEntered =>
       /\ gc_phase = JS_GC_PHASE_DECREF
       /\ Len(gc_zero_ref_count_list) = 1
       /\ gc_obj_type[gc_zero_ref_count_list[1]] \in ValueTypes
       /\ ref_count[gc_zero_ref_count_list[1]] = 0
       /\ ~InList(gc_obj_list, gc_zero_ref_count_list[1])
  /\ DrainDone =>
       \A c \in ZeroCells :
         freed[c] = 1 /\ finalized[c] = 1 /\ ~Linked(Cur, c)
  /\ Idle =>
       /\ gc_zero_ref_count_list = << >>
       /\ gc_phase = JS_GC_PHASE_NONE
       /\ \A c \in ZeroCells : freed[c] = 1

\* a drain that ends after the teardown of three cells, the second brought to
\* zero by the teardown of the first and the third by that of the second
C27_Witness ==
  /\ DrainDone
  /\ Len(hist.fin) >= 3
  /\ hist.zeroed_by[hist.fin[2]] = hist.fin[1]
  /\ hist.zeroed_by[hist.fin[3]] = hist.fin[2]

\* the step brings the count of the object or bytecode p to zero
ZeroedNow(p) ==
  /\ gc_obj_type[p] \in ValueTypes
  /\ freed[p] = 0 /\ freed'[p] = 0
  /\ ref_count[p] > 0 /\ ref_count'[p] = 0

GcPos ==
  IF ~InGC \/ stack = << >> THEN "none"
  ELSE IF stack[1].fn = "js_trigger_gc" /\ Len(stack) >= 2 THEN stack[2].fn
  ELSE stack[1].fn

\* C29 as stated: gc_phase is REMOVE_CYCLES once gc_decref has run, during
\* gc_scan and during the loop of gc_free_cycles
C29_Original ==
  (err = {} /\ GcPos \in {"gc_scan", "gc_free_cycles", "gc_free_cycles_loop"})
    => gc_phase = JS_GC_PHASE_REMOVE_CYCLES

\* C29 amended: gc_phase is NONE during gc_decref and gc_scan; it is
\* REMOVE_CYCLES from the entry of gc_free_cycles until tmp_obj_list is empty,
\* and NONE again while the deferred cells are freed and when JS_RunGC returns
C29_PhaseOfThePasses ==
  err = {} =>
    /\ GcPos \in {"gc_decref", "gc_scan", "gc_free_cycles"}
         => gc_phase = JS_GC_PHASE_NONE
    /\ GcPos = "gc_free_cycles_loop" => gc_phase = JS_GC_PHASE_REMOVE_CYCLES
    /\ GcPos \in {"gc_free_cycles_sweep", "JS_RunGC"}
         => gc_phase = JS_GC_PHASE_NONE

\* gc_decref has run and condemned a cell, gc_scan has not run yet
C29_Witness ==
  /\ err = {}
  /\ GcPos = "gc_scan"
  /\ tmp_obj_list # << >>
  /\ gc_phase = JS_GC_PHASE_NONE

\* gc_decref has returned and gc_scan is the next call of JS_RunGC
DecrefDone == GcPos = "gc_scan"

\* the cells that were on gc_obj_list when JS_RunGC was entered
EntryList == SeqSet(snap.gc_obj_list)

\* C30: at the end of gc_decref no assertion has failed, every cell that was on
\* gc_obj_list has mark 1 and is on exactly one of gc_obj_list and
\* tmp_obj_list, its ref_count is its count at entry minus the references
\* that mark_children enumerates from the cells of the list, it is on
\* tmp_obj_list iff that count is 0, and every cell left on gc_obj_list has a
\* count above 0; the counts of the other cells are unchanged
C30_DecrefResult ==
  DecrefDone =>
    /\ err = {}
    /\ SeqSet(gc_obj_list) \cup SeqSet(tmp_obj_list) = EntryList
    /\ Len(gc_obj_list) + Len(tmp_obj_list) = Len(snap.gc_obj_list)
    /\ \A c \in EntryList :
         /\ mark[c] = 1
         /\ ref_count[c] = snap.ref_count[c] - RefsFrom(EntryList, c)
         /\ InList(tmp_obj_list, c) <=> ref_count[c] = 0
         /\ InList(gc_obj_list, c) <=> ref_count[c] > 0
    /\ \A c \in Cells \ EntryList : ref_count[c] = snap.ref_count[c]

\* after gc_decref one cell whose references all came from the list is on
\* tmp_obj_list and another, with a reference from outside, stays on
\* gc_obj_list with a smaller count
C30_Witness ==
  /\ DecrefDone
  /\ err = {}
  /\ \E c \in EntryList : InList(tmp_obj_list, c) /\ snap.ref_count[c] > 0
  /\ \E c \in EntryList :
       /\ InList(gc_obj_list, c)
       /\ 0 < ref_count[c] /\ ref_count[c] < snap.ref_count[c]

\* gc_scan has returned and gc_free_cycles is the next call of JS_RunGC
ScanDone == GcPos = "gc_free_cycles"

\* the count gc_decref leaves in a cell of the list
AfterDecref(c) == snap.ref_count[c] - RefsFrom(EntryList, c)

\* the cells of the list that gc_decref left with a count above 0, and the
\* cells reachable from them
ScanKept == EntryReach({c \in EntryList : AfterDecref(c) > 0}) \cap EntryList

\* C31: at the end of gc_scan no assertion has failed, every cell has the
\* ref_count it had at entry to JS_RunGC, every cell on gc_obj_list has mark 0,
\* and a cell of the entry list is on tmp_obj_list iff it is not reachable
\* from a cell that gc_decref left with a count above 0 (it is on gc_obj_list
\* otherwise)
C31_ScanRestoresCounts ==
  ScanDone =>
    /\ err = {}
    /\ \A c \in Cells : ref_count[c] = snap.ref_count[c]
    /\ \A c \in SeqSet(gc_obj_list) : mark[c] = 0
    /\ \A c \in EntryList :
         /\ InList(tmp_obj_list, c) <=> c \notin ScanKept
         /\ InList(gc_obj_list, c) <=> c \in ScanKept
    /\ Len(gc_obj_list) + Len(tmp_obj_list) = Len(snap.gc_obj_list)

\* after gc_scan a cell that gc_decref had brought to 0 is back on gc_obj_list
\* and another cell, whose count at entry was above 0, is still on tmp_obj_list
C31_Witness ==
  /\ ScanDone
  /\ err = {}
  /\ \E c \in EntryList : InList(gc_obj_list, c) /\ AfterDecref(c) = 0
  /\ \E c \in EntryList : InList(tmp_obj_list, c) /\ snap.ref_count[c] > 0

\* ---- the free pass -----------------------------------------------------------------------
\* the loop of gc_free_cycles over tmp_obj_list is running
FreePass == GcPos = "gc_free_cycles_loop" /\ gc_phase = JS_GC_PHASE_REMOVE_CYCLES

\* no release and no js_free_rt has met memory that was already deallocated
NoUseAfterFree ==
  /\ "release of freed memory" \notin err
  /\ "double free" \notin err

\* the deferred cells are allocated objects or bytecodes whose teardown began
DeferredKept ==
  \A c \in SeqSet(gc_zero_ref_count_list) :
    gc_obj_type[c] \in ValueTypes => freed[c] = 0 /\ finalized[c] = 1

\* the step ends the teardown of the object or bytecode p of tmp_obj_list
TeardownEnds(p) ==
  /\ FreePass
  /\ gc_obj_type[p] \in ValueTypes
  /\ InList(tmp_obj_list, p) /\ ~InList(tmp_obj_list', p)

\* C32: in the free pass the teardown of an object or bytecode whose count is
\* not zero ends with the cell allocated and on gc_zero_ref_count_list, where
\* it stays allocated as long as the loop over tmp_obj_list runs; the teardown
\* of a cell whose count is zero ends with the cell freed; and no release
\* reads or decrements memory that was deallocated
C32_DeferredDeallocation ==
  [][/\ \A p \in Cells :
          TeardownEnds(p) =>
            IF ref_count[p] # 0
            THEN freed'[p] = 0 /\ InList(gc_zero_ref_count_list', p)
            ELSE freed'[p] = 1 /\ ~InList(gc_zero_ref_count_list', p)
     /\ FreePass' => DeferredKept'
     /\ InGC' => NoUseAfterFree']_vars

\* in the free pass a deferred cell is still allocated after the finalizer of
\* a cell that references it has released it and that cell has been freed
C32_Witness ==
  /\ FreePass
  /\ err = {}
  /\ \E a, b \in EntryCells :
       /\ a # b
       /\ InList(gc_zero_ref_count_list, a)
       /\ finalized[a] = 1 /\ freed[a] = 0
       /\ EntryRefs(b, a) > 0
       /\ freed[b] = 1

\* the loop over tmp_obj_list has ended and the deferred list is about to be
\* walked
SweepNext == GcPos = "gc_free_cycles_sweep"

\* the cells of other kinds than object and bytecode that were on tmp_obj_list
\* when the free pass began
CondemnedOthers ==
  {c \in SeqSet(hist.tmp0) : gc_obj_type[c] \notin ValueTypes}

Remove(seq, x) == SelectSeq(seq, LAMBDA y : y # x)

\* the property slots of p in slot order, and p->shape
ObjProps(p) ==
  SelectSeq(children[p], LAMBDA c : gc_obj_type[c] # JS_GC_OBJ_TYPE_SHAPE)

ObjShape(p) ==
  SelectSeq(children[p], LAMBDA c : gc_obj_type[c] = JS_GC_OBJ_TYPE_SHAPE)

\* the teardown of p writes down what it does
Log(w, p, e) == [w EXCEPT !.log[p] = Append(@, e)]

\* a weak map gets a record: key is not retained, value is; the record is
\* linked on the hash bucket and the insertion-order list of the map and at
\* the head of key's first_weak_ref chain
map_add_record(mp, key, value) ==
  /\ Idle
  /\ Allocated(key) /\ Allocated(value)
  /\ held[key] >= 1 /\ held[value] >= 1
  /\ gc_obj_type[key] = JS_GC_OBJ_TYPE_JS_OBJECT
  /\ gc_obj_type[value] = JS_GC_OBJ_TYPE_JS_OBJECT
  /\ Len(weak.rec) < MaxWeakRecords
  /\ mp <= Len(weak.rec) + 1          \* a map's number is its order of first use
  /\ LET mr == Len(weak.rec) + 1
     IN weak' = [weak EXCEPT
                   !.rec = Append(@, [map |-> mp, key |-> key, value |-> value]),
                   !.chain[key] = <<mr>> \o @,
                   !.hash[mp] = Append(@, mr),
                   !.link[mp] = Append(@, mr),
                   !.released = Append(@, 0),
                   !.freed = Append(@, 0)]
  /\ ref_count' = [ref_count EXCEPT ![value] = @ + 1]
  /\ snap' = NoSnap
  /\ last_gc' = FALSE
  /\ trig' = NoTrig
  /\ UNCHANGED <<nalloc, gc_obj_type, mark, free_mark, children, gc_obj_list,
                 tmp_obj_list, gc_zero_ref_count_list, gc_phase, held, stack,
                 finalized, freed, hist, malloc_gc_threshold, call, dump,
                 tick, err>>

\* reset_weak_ref, first loop, that leaves the record on the insertion-order
\* list of its map
reset_weak_ref_unlink_keeps_link(w, mr) ==
  [w EXCEPT !.hash[w.rec[mr].map] = Remove(@, mr)]

\* reset_weak_ref, first loop, one record: list_del(&mr->hash_link);
\* list_del(&mr->link)
reset_weak_ref_unlink(w, mr) ==
  [w EXCEPT !.hash[w.rec[mr].map] = Remove(@, mr),
            !.link[w.rec[mr].map] = Remove(@, mr)]

\* reset_weak_ref, second loop, one record: JS_FreeValueRT(rt, mr->value);
\* js_free_rt(rt, mr)
reset_weak_ref_free(w, mr) ==
  [w EXCEPT !.released[mr] = @ + 1, !.freed[mr] = @ + 1]

\* free_object that runs the class finalizer before the weak-ref sweep
free_object_next_finalizer_first(w, p, fn) ==
  CASE fn = "free_object" -> "class_finalizer"
    [] fn = "class_finalizer" ->
         IF w.chain[p] # << >> THEN "reset_weak_ref" ELSE "free_object_end"
    [] OTHER -> "free_object_end"

\* free_object: what follows the part fn of the teardown of p
free_object_next(w, p, fn) ==
  CASE fn = "free_object" ->
         IF w.chain[p] # << >> THEN "reset_weak_ref" ELSE "class_finalizer"
    [] fn = "reset_weak_ref" -> "class_finalizer"
    [] OTHER -> "free_object_end"

\* a step of the teardown: the runtime becomes m, the weak records w
StepWeak(m, w) ==
  /\ Commit(m)
  /\ tick' = 1 - tick
  /\ weak' = w
  /\ UNCHANGED <<nalloc, gc_obj_type, held, snap, last_gc,
                 malloc_gc_threshold, trig, call, dump>>

\* free_object: free_property(rt, &p->prop[i], pr->flags) of the next slot
FreeObjectProperty ==
  /\ Running
  /\ Top.fn = "free_object"
  /\ Top.i <= Len(ObjProps(Top.p))
  /\ StepWeak(ReleaseRef(SetTop(Cur, [Top EXCEPT !.i = @ + 1]),
                         ObjProps(Top.p)[Top.i]),
              Log(weak, Top.p, "free_property"))

\* free_object: js_free_rt(rt, p->prop); js_free_shape(rt, sh)
FreeObjectShape ==
  /\ Running
  /\ Top.fn = "free_object"
  /\ Top.i > Len(ObjProps(Top.p))
  /\ LET p == Top.p
         m == IF ObjShape(p) # << >> THEN js_free_shape(Cur, ObjShape(p)[1])
              ELSE Cur
     IN StepWeak([m EXCEPT !.stack[Len(stack)] =
                    Frame(free_object_next(weak, p, "free_object"), p, 1)],
                 Log(Log(weak, p, "js_free_rt(prop)"), p, "js_free_shape"))

\* reset_weak_ref: the first loop, at the record Top.i of the chain
ResetWeakRefUnlink ==
  /\ Running
  /\ Top.fn = "reset_weak_ref"
  /\ Top.i <= Len(weak.chain[Top.p])
  /\ StepWeak(SetTop(Cur, [Top EXCEPT !.i = @ + 1]),
              Log(reset_weak_ref_unlink(weak, weak.chain[Top.p][Top.i]),
                  Top.p, "list_del"))

\* reset_weak_ref: the second loop, at the record Top.i - n of the chain of n
\* records; after the last one p->first_weak_ref = NULL and the call returns
ResetWeakRefFree ==
  /\ Running
  /\ Top.fn = "reset_weak_ref"
  /\ Top.i > Len(weak.chain[Top.p])
  /\ LET p == Top.p
         n == Len(weak.chain[p])
         mr == weak.chain[p][Top.i - n]
         w == Log(reset_weak_ref_free(weak, mr), p, "js_free_rt(mr)")
         last == Top.i = 2 * n
         f == IF last
              THEN Frame(free_object_next(weak, p, "reset_weak_ref"), p, 1)
              ELSE [Top EXCEPT !.i = @ + 1]
     IN StepWeak(ReleaseRef(SetTop(Cur, f), weak.rec[mr].value),
                 IF last THEN [w EXCEPT !.chain[p] = << >>] ELSE w)

\* free_object: the class finalizer is called
FreeObjectFinalizer ==
  /\ Running
  /\ Top.fn = "class_finalizer"
  /\ LET p == Top.p
     IN StepWeak(class_finalizer(
                   SetTop(Cur, Frame(free_object_next(weak, p,
                                                      "class_finalizer"),
                                     p, 1)), p),
                 Log(weak, p, "class_finalizer"))

\* free_object: remove_gc_object, then the cell is freed or deferred
FreeObjectEnd ==
  /\ Running
  /\ Top.fn = "free_object_end"
  /\ LET p == Top.p
         m == free_object_end(Pop(Cur), p)
     IN StepWeak(m, Log(Log(weak, p, "remove_gc_object"), p,
                        IF m.freed[p] > 0 THEN "js_free_rt(p)"
                        ELSE "list_add_tail"))

\* js_free_shape0 releases the prototype
FreeShapeRelease == Running /\ Top.fn \in InlineFreeFns /\ FreeRelease

\* the first cell is a shape, the others are objects
WeakTypes(h) ==
  IF h = 1 THEN {JS_GC_OBJ_TYPE_SHAPE}
  ELSE {JS_GC_OBJ_TYPE_JS_OBJECT}

InitWeak == InitHeap(MaxWeakCells)

NextWeak ==
  \/ \E type \in WeakTypes(nalloc + 1) :
       nalloc < MaxWeakCells /\ add_gc_object(nalloc + 1, type)
  \/ \E a, b \in Cells : EdgeCount < MaxWeakEdges /\ Store(a, b)
  \/ \E mp \in 1..MaxWeakMaps : \E key, value \in Cells :
       map_add_record(mp, key, value)
  \/ \E c \in Cells : Release(c)
  \/ JS_RunGC
  \/ GcDecref
  \/ GcScan
  \/ GcFreeCyclesEnter
  \/ GcFreeCyclesLoop
  \/ GcFreeCyclesExit
  \/ GcFreeCyclesSweep
  \/ GcReturn
  \/ FreeZeroRefcountLoop
  \/ FreeZeroRefcountExit
  \/ FreeObjectProperty
  \/ FreeObjectShape
  \/ ResetWeakRefUnlink
  \/ ResetWeakRefFree
  \/ FreeObjectFinalizer
  \/ FreeObjectEnd
  \/ FreeShapeRelease
  \/ FreeInlineEnd

SpecWeak == InitWeak /\ [][NextWeak]_vars

\* ---- C34 -----------------------------------------------------------------------------
\* the records keyed on p, and the records some map still links
RecordsOf(p) == {mr \in 1..Len(weak.rec) : weak.rec[mr].key = p}

LinkedRecords ==
  UNION {SeqSet(weak.hash[mp]) \cup SeqSet(weak.link[mp]) :
           mp \in 1..MaxWeakMaps}

\* the teardown of p has begun: free_object was entered
TeardownBegun(p) ==
  \/ weak.log[p] # << >>
  \/ \E k \in 1..Len(stack) : stack[k].p = p /\ stack[k].fn = "free_object"

\* p died and its teardown is past the weak-ref sweep
Swept(p) ==
  /\ TeardownBegun(p)
  /\ \A k \in 1..Len(stack) :
       stack[k].p = p => stack[k].fn \notin {"free_object", "reset_weak_ref"}

\* C34: when an object with weak-map records dies, no value of a record on its
\* chain is released and no record of the chain is freed while a record of the
\* chain is still on a hash bucket or an insertion-order list; after the sweep
\* the value of each record was released once, each record was freed once,
\* the chain is empty and no map contains a record keyed on the object
C34_WeakRefSweep ==
  \A mr \in 1..Len(weak.rec) :
    LET p == weak.rec[mr].key
    IN /\ weak.released[mr] <= 1
       /\ weak.freed[mr] <= 1
       /\ (weak.released[mr] > 0 \/ weak.freed[mr] > 0)
            => RecordsOf(p) \cap LinkedRecords = {}
       /\ Swept(p) => /\ weak.released[mr] = 1
                      /\ weak.freed[mr] = 1
                      /\ weak.chain[p] = << >>
                      /\ mr \notin LinkedRecords

\* an object with two records, in two maps, was swept
C34_Witness ==
  \E p \in Cells :
    /\ Swept(p)
    /\ Cardinality(RecordsOf(p)) = 2
    /\ Cardinality({weak.rec[mr].map : mr \in RecordsOf(p)}) = 2

\* ---- C35 -----------------------------------------------------------------------------
\* the place of a statement of free_object in the order the claim gives
TeardownRank(e) ==
  CASE e = "free_property" -> 1
    [] e \in {"js_free_rt(prop)", "js_free_shape"} -> 2
    [] e \in {"list_del", "js_free_rt(mr)"} -> 3
    [] e = "class_finalizer" -> 4
    [] e = "remove_gc_object" -> 5
    [] OTHER -> 6

Did(p, e) == \E i \in 1..Len(weak.log[p]) : weak.log[p][i] = e

OnLists(p) ==
  Count(gc_obj_list, p) + Count(tmp_obj_list, p)
    + Count(gc_zero_ref_count_list, p)

\* C35: free_object sets free_mark before it releases a property slot,
\* releases every property slot before it frees the slot array and the shape,
\* sweeps the weak records before it calls the class finalizer, and unlinks
\* the cell from its list after the class finalizer and before the cell is
\* freed or deferred
C35_TeardownOrder ==
  \A p \in Cells :
    gc_obj_type[p] = JS_GC_OBJ_TYPE_JS_OBJECT =>
      /\ TeardownBegun(p) /\ freed[p] = 0 => free_mark[p] = 1
      /\ \A i, j \in 1..Len(weak.log[p]) :
           i < j => TeardownRank(weak.log[p][i]) <= TeardownRank(weak.log[p][j])
      /\ Did(p, "js_free_rt(prop)") /\ ~Did(p, "remove_gc_object")
           => Cardinality({i \in 1..Len(weak.log[p]) :
                             weak.log[p][i] = "free_property"})
                = Len(ObjProps(p))
      /\ Did(p, "class_finalizer")
           => /\ weak.chain[p] = << >>
              /\ \A mr \in RecordsOf(p) : weak.freed[mr] = 1
      /\ TeardownBegun(p) /\ ~Did(p, "remove_gc_object")
           => OnLists(p) = 1 /\ freed[p] = 0
      /\ Did(p, "remove_gc_object")
           => /\ Did(p, "class_finalizer")
              /\ ~InList(gc_obj_list, p) /\ ~InList(tmp_obj_list, p)
      /\ freed[p] > 0 => Did(p, "js_free_rt(p)") \/ Did(p, "list_add_tail")
      /\ Did(p, "js_free_rt(p)") \/ Did(p, "list_add_tail")
           => Did(p, "remove_gc_object")

\* an object with a property, a weak record and a shape that died with it
\* was torn down and freed
C35_Witness ==
  \E p \in Cells :
    /\ Did(p, "free_property")
    /\ RecordsOf(p) # {}
    /\ hist.zeroed_by[1] = p /\ freed[1] > 0
    /\ Did(p, "remove_gc_object")

\* ---- the array scenario: one dynamic array that js_realloc_array grows ---------
INT_MAX == 2 ^ (ArrayIntBits - 1) - 1

INT_MIN == 0 - 2 ^ (ArrayIntBits - 1)

\* the int with the low bits of x (the conversion to int of a wider value)
WrapInt(x) == ((x - INT_MIN) % 2 ^ ArrayIntBits) + INT_MIN

\* the division of C, which truncates toward zero; b > 0
TruncDiv(a, b) == IF a >= 0 THEN a \div b ELSE 0 - ((0 - a) \div b)

max_int(a, b) == IF a > b THEN a ELSE b

\* *psize * 3 / 2 in int: the value when the product fits; when it overflows
\* the behaviour is undefined and a build gives the division of the wrapped
\* product or the low bits of the quotient computed in a wider register
GrowOutcomes(psize) ==
  IF psize * 3 \in INT_MIN..INT_MAX THEN {TruncDiv(psize * 3, 2)}
  ELSE {TruncDiv(WrapInt(psize * 3), 2), WrapInt(TruncDiv(psize * 3, 2))}

\* new_size * elem_size in int, converted to size_t (twice as wide as int)
ByteOutcomes(new_size, elem_size) ==
  IF new_size * elem_size \in INT_MIN..INT_MAX
  THEN {(new_size * elem_size) % 2 ^ (2 * ArrayIntBits)}
  ELSE {WrapInt(new_size * elem_size) % 2 ^ (2 * ArrayIntBits),
        (new_size * elem_size) % 2 ^ (2 * ArrayIntBits)}

\* the array before the call: *parray, *psize and the element size its
\* callers use
ArrayNow ==
  IF call.fn = "js_realloc_array"
  THEN [parray |-> call.parray, psize |-> call.psize]
  ELSE [parray |-> "NULL", psize |-> 0]

\* js_realloc_array after js_realloc2 returned r; x is *psize * 3 / 2
js_realloc_array_result(a, elem_size, req_size, x, r) ==
  IF r.ret_null
  THEN [fn |-> "js_realloc_array", elem_size |-> elem_size,
        req_size |-> req_size, old |-> a, null |-> r.null, slack |-> r.slack,
        ret |-> 0 - 1, parray |-> a.parray, psize |-> a.psize]
  ELSE [fn |-> "js_realloc_array", elem_size |-> elem_size,
        req_size |-> req_size, old |-> a, null |-> r.null, slack |-> r.slack,
        ret |-> 0, parray |-> "new_array",
        psize |-> WrapInt(max_int(req_size, x) + r.slack \div elem_size)]

\* js_realloc_array(ctx, parray, elem_size, psize, req_size): null tells
\* whether the allocator of the runtime returned NULL, extra what the block
\* holds beyond the size asked for
js_realloc_array(elem_size, req_size) ==
  /\ call.fn = "js_realloc_array" => elem_size = call.elem_size
  /\ \E x \in GrowOutcomes(ArrayNow.psize) :
       \E size \in ByteOutcomes(max_int(req_size, x), elem_size) :
         \E null \in BOOLEAN : \E extra \in 0..MaxSlack :
           call' = js_realloc_array_result(
                     ArrayNow, elem_size, req_size, x,
                     js_realloc_result("js_realloc2", ArrayNow.parray # "NULL",
                                       size, null, TRUE,
                                       IF null THEN 0 ELSE size + extra))
  /\ UNCHANGED RuntimeVars

NextArray ==
  \E elem_size \in 1..MaxElemSize : \E req_size \in 0..INT_MAX :
    js_realloc_array(elem_size, req_size)

SpecArray == Init /\ [][NextArray]_vars

\* ---- C36 -----------------------------------------------------------------------------
\* C36: when the allocation succeeds js_realloc_array returns 0 and sets the
\* capacity to max(req_size, old capacity * 3 / 2) plus slack / elem_size,
\* which is at least req_size and at least the old capacity; when it fails
\* js_realloc_array returns -1 and leaves the pointer and the capacity as
\* they were
C36_ArrayGrower ==
  call.fn = "js_realloc_array" =>
    IF call.null
    THEN /\ call.ret = 0 - 1
         /\ call.parray = call.old.parray
         /\ call.psize = call.old.psize
    ELSE /\ call.ret = 0
         /\ call.psize = max_int(call.req_size, (call.old.psize * 3) \div 2)
                           + call.slack \div call.elem_size
         /\ call.psize >= call.req_size
         /\ call.psize >= call.old.psize

\* the call computes in int without overflow
InIntRange ==
  /\ call.old.psize >= 0
  /\ call.old.psize * 3 <= INT_MAX
  /\ max_int(call.req_size, (call.old.psize * 3) \div 2)
       + call.slack \div call.elem_size <= INT_MAX

\* what the code does: the statement of C36 for the calls whose arithmetic
\* stays within int
C36_WithinInt == (call.fn = "js_realloc_array" /\ InIntRange) => C36_ArrayGrower

\* ---- C37 -----------------------------------------------------------------------------
\* byte sequences to intern: those of the table and some others
InternInputs == SeqSet(dump.strs) \cup {"shape", "__proto__", "C37"}

\* C37: two calls of js_gcdump_add_cstr return the same index exactly when
\* their byte sequences are equal; a call adds no entry for bytes strs already
\* holds and changes no entry; the index returned designates the entry of
\* strs that holds the bytes
C37_StringInterning ==
  \A c1, c2 \in InternInputs :
    LET d1 == js_gcdump_add_cstr(dump, c1)
        d2 == js_gcdump_add_cstr(d1, c2)
    IN /\ (d1.ret = d2.ret) <=> (c1 = c2)
       /\ d1.ret \in 0..(Len(d1.strs) - 1) /\ d1.strs[d1.ret + 1] = c1
       /\ d2.ret \in 0..(Len(d2.strs) - 1) /\ d2.strs[d2.ret + 1] = c2
       /\ d2.strs[d1.ret + 1] = c1
       /\ SubSeq(d2.strs, 1, Len(dump.strs)) = dump.strs
       /\ (\E i \in 1..Len(dump.strs) : dump.strs[i] = c1)
            => d1.strs = dump.strs
       /\ \A i, j \in 1..Len(d2.strs) : d2.strs[i] = d2.strs[j] => i = j

\* the dumper has interned several strings and was given one of them twice:
\* two nodes have the same name
C37_Witness ==
  /\ dump.state = "walking"
  /\ Len(dump.strs) >= 3
  /\ \E i, j \in 1..Len(dump.nodes) :
       /\ i # j
       /\ dump.nodes[i].name >= 0
       /\ dump.nodes[i].name = dump.nodes[j].name

\* ---- C38 -----------------------------------------------------------------------------
\* JS_RunGC was entered and gc_decref is its next call
DecrefNext == GcPos = "gc_decref"

\* at entry every count covers the references mark_children enumerates
CountsCoverRefs ==
  \A c \in EntryList : snap.ref_count[c] >= RefsFrom(EntryList, c)

\* the runtime after gc_decref has visited the first k cells of gc_obj_list
RECURSIVE DecrefPrefix(_)
DecrefPrefix(k) ==
  IF k = 0 THEN [Cur EXCEPT !.tmp_obj_list = << >>]
  ELSE gc_decref_visit(DecrefPrefix(k - 1), gc_obj_list[k])

\* m after mark_children has called gc_decref_child on the first i references
\* of el
RECURSIVE ChildPrefix(_, _, _)
ChildPrefix(m, el, i) ==
  IF i = 0 THEN m
  ELSE MarkFunc("gc_decref_child", ChildPrefix(m, el, i - 1), children[el][i])

\* C38: when at entry to JS_RunGC every count is at least the number of
\* references mark_children enumerates to the cell, the decref pass applies
\* gc_decref_child only to cells whose count is above 0, so its assertion
\* never fails, and it moves no cell that the iteration has not visited yet
C38_NoUnderflow ==
  /\ "assert ref_count > 0 in gc_decref_child" \notin err
  /\ "gc_decref: the saved next element left gc_obj_list" \notin err
  /\ (DecrefNext /\ CountsCoverRefs) =>
       \A k \in 1..Len(gc_obj_list) : \A i \in 1..Len(children[gc_obj_list[k]]) :
         LET el == gc_obj_list[k]
             c == children[el][i]
             before == ChildPrefix(DecrefPrefix(k - 1), el, i - 1)
             after == ChildPrefix(DecrefPrefix(k - 1), el, i)
         IN gc_obj_type[c] # JS_TAG_STRING =>
              /\ before.ref_count[c] > 0
              /\ (InList(after.tmp_obj_list, c)
                    /\ ~InList(before.tmp_obj_list, c))
                   => \E j \in 1..(k - 1) : gc_obj_list[j] = c

\* a pass in which one call of gc_decref_child moves a visited cell and
\* another brings a cell not yet visited to zero and leaves it in place
C38_Witness ==
  /\ DecrefNext /\ CountsCoverRefs
  /\ \E k \in 1..Len(gc_obj_list) : \E i \in 1..Len(children[gc_obj_list[k]]) :
       LET el == gc_obj_list[k]
           c == children[el][i]
       IN /\ \E j \in 1..(k - 1) : gc_obj_list[j] = c
          /\ ~InList(ChildPrefix(DecrefPrefix(k - 1), el, i - 1).tmp_obj_list, c)
          /\ InList(ChildPrefix(DecrefPrefix(k - 1), el, i).tmp_obj_list, c)
  /\ \E k \in 1..Len(gc_obj_list) : \E i \in 1..Len(children[gc_obj_list[k]]) :
       LET el == gc_obj_list[k]
           c == children[el][i]
       IN /\ \A j \in 1..k : gc_obj_list[j] # c
          /\ ChildPrefix(DecrefPrefix(k - 1), el, i).ref_count[c] = 0
          /\ InList(ChildPrefix(DecrefPrefix(k - 1), el, i).gc_obj_list, c)

\* ---- C39 -----------------------------------------------------------------------------
\* the drain loop is active: free_zero_refcount has a frame
Draining == \E k \in 1..Len(stack) : stack[k].fn = "free_zero_refcount"

\* C39: free_gc_object never reaches its abort: every cell the drain loop
\* takes from gc_zero_ref_count_list and every cell the free pass hands to
\* free_gc_object is an object or a function bytecode, and every teardown
\* free_gc_object began is that of the kind of its cell
C39_KindCheckNotHit ==
  /\ "abort in free_gc_object" \notin err
  /\ (Draining \/ gc_phase = JS_GC_PHASE_DECREF) =>
       \A k \in 1..Len(gc_zero_ref_count_list) :
         gc_obj_type[gc_zero_ref_count_list[k]] \in ValueTypes
  /\ \A k \in 1..Len(stack) :
       /\ stack[k].fn = "free_object"
            => gc_obj_type[stack[k].p] = JS_GC_OBJ_TYPE_JS_OBJECT
       /\ stack[k].fn = "free_function_bytecode"
            => gc_obj_type[stack[k].p] = JS_GC_OBJ_TYPE_FUNCTION_BYTECODE

\* the free pass has deferred a cell of another kind without free_gc_object
\* and free_gc_object has begun the teardown of an object or a bytecode
C39_Witness ==
  /\ FreePass
  /\ Top.fn \in ValueFreeFns
  /\ err = {}
  /\ \E c \in Cells :
       /\ gc_obj_type[c] \notin ValueTypes
       /\ InList(gc_zero_ref_count_list, c)

\* ---- C40 -----------------------------------------------------------------------------
\* the activations of free_gc_object and of free_zero_refcount on a stack
FreeCalls(st) ==
  Cardinality({k \in 1..Len(st) :
                 st[k].fn \in ValueFreeFns \cup {"free_zero_refcount"}})

Finalizers(st) == Cardinality({k \in 1..Len(st) : st[k].fn \in ValueFreeFns})

\* this step is a release, made inside a teardown while the drain or the free
\* pass runs, that brings the object or function bytecode p to zero
ZeroedInside(p) ==
  /\ Running
  /\ Top.fn \in FreeFns
  /\ gc_phase \in {JS_GC_PHASE_DECREF, JS_GC_PHASE_REMOVE_CYCLES}
  /\ gc_obj_type[p] \in ValueTypes
  /\ ref_count[p] > 0
  /\ ref_count'[p] = 0

\* C40: a release inside a finalizer that brings an object or a function
\* bytecode to zero enters neither free_zero_refcount nor free_gc_object: in
\* phase DECREF it links the cell at the head of gc_zero_ref_count_list, in
\* phase REMOVE_CYCLES it leaves the lists as they are; at most one
\* free_gc_object call and one free_zero_refcount call are active
C40_FinalizersNeverNest ==
  [][/\ \A p \in Cells :
          ZeroedInside(p) =>
            /\ gc_phase' = gc_phase
            /\ FreeCalls(stack') = FreeCalls(stack)
            /\ Len(stack') = Len(stack)
            /\ gc_phase = JS_GC_PHASE_DECREF =>
                 /\ gc_zero_ref_count_list' = <<p>> \o gc_zero_ref_count_list
                 /\ ~InList(gc_obj_list', p)
            /\ gc_phase = JS_GC_PHASE_REMOVE_CYCLES =>
                 /\ gc_zero_ref_count_list' = gc_zero_ref_count_list
                 /\ gc_obj_list' = gc_obj_list
                 /\ tmp_obj_list' = tmp_obj_list
     /\ Finalizers(stack') <= 1
     /\ FreeCalls(stack') <= 2]_vars

\* inside the finalizer of an object, in phase DECREF, two cells it brought
\* to zero wait on gc_zero_ref_count_list, the later one at the head
C40_Witness ==
  /\ Running
  /\ Top.fn \in ValueFreeFns
  /\ gc_phase = JS_GC_PHASE_DECREF
  /\ Len(gc_zero_ref_count_list) >= 2
  /\ hist.zeroed_by[gc_zero_ref_count_list[1]] = Top.p
  /\ hist.zeroed_by[gc_zero_ref_count_list[2]] = Top.p
  /\ Top.i > 1
  /\ gc_zero_ref_count_list[1] = children[Top.p][Top.i - 1]

====
